-------------------------- MODULE StructuresProofs --------------------------
(***************************************************************************)
(* Proofs about containers: Tbuf, Vstack, Vpool, Fqueue, Varena, Varray,   *)
(* Vqueue, Vdll and Vht.  For each, the property of its module with what it*)
(* takes to be inductive: the types, and what is left behind while there is*)
(* no container; for the queues, what each slot holds; for the arena, where*)
(* each frame lies.  Vdll and Vht go through loops.  A loop of the model is*)
(* a recursive function of the number of its steps, which SetInduction     *)
(* follows.                                                                *)
(*                                                                         *)
(* Vdll, for all nodes and all numbers calls are given: the memory of a    *)
(* list says the same as a sequence s of its nodes, VdllIs(d, s).  A node  *)
(* linked in or out makes one of VdllPut and VdllTaken of it; the loops of *)
(* a call are runs of such steps; and a call that succeeds has put in or   *)
(* taken out one run.                                                      *)
(*                                                                         *)
(* Vht, for all hashes: an odd step comes to every slot of a table of 2^n  *)
(* slots, once; so a table that is not full has a slot for every key, and  *)
(* the search for a key that is there ends at it, VhtPath.  A key put in   *)
(* an empty slot leaves these paths as they are; growth sets every entry   *)
(* anew in the order of a walk that passes every slot once.                *)
(***************************************************************************)
EXTENDS Tbuf, Vpool, Vstack, Fqueue, Varena, Varray, Vqueue, Vdll, Vht,
        FiniteSetTheorems, SequenceTheorems, WellFoundedInduction, TLAPS

-----------------------------------------------------------------------------
(* Tbuf.                                                                   *)

TbufStates == [A : {1, 2}, A_len : 0..TbufCap, B : {1, 2}, B_len : 0..TbufCap]

TbufTypes ==
  /\ tbuf # NULL => tbuf \in TbufStates
  /\ tbuf_wrote \in [{1, 2} -> Nat]
  /\ tbuf = NULL => tbuf_wrote[1] = 0 /\ tbuf_wrote[2] = 0

(* For every capacity: through all swaps a length stays with the memory it *)
(* counts, so that a writer that goes on where tbuf_A or tbuf_B says       *)
(* overwrites nothing and never leaves its piece (tbuf_swap 133-150).      *)
THEOREM TbufWritersGoOn ==
  ASSUME NULL \notin TbufStates
  PROVE  TbufSpec => []TbufGoesOn
<1> DEFINE Inv == TbufTypes /\ TbufGoesOn
<1> USE TbufAssumption
<1>1. TbufInit => Inv
  BY DEF TbufInit, TbufTypes, TbufGoesOn
<1>2. Inv /\ [TbufNext]_tbuf_vars => Inv'
  <2> SUFFICES ASSUME Inv, [TbufNext]_tbuf_vars PROVE Inv'
    OBVIOUS
  <2> USE DEF TbufTypes, TbufGoesOn
  <2>1. CASE TbufCreate BY <2>1 DEF TbufCreate, tbuf_init, TbufStates
  <2>2. CASE TbufDestroy BY <2>2 DEF TbufDestroy
  <2>3. CASE TbufSwap
    <3>1. tbuf' \in TbufStates /\ tbuf' # NULL
      BY <2>3 DEF TbufSwap, TbufStates
    <3>2. /\ tbuf'.A = tbuf.B /\ tbuf'.A_len = tbuf.B_len
          /\ tbuf'.B = tbuf.A /\ tbuf'.B_len = tbuf.A_len
      BY <2>3 DEF TbufSwap
    <3> QED BY <2>3, <3>1, <3>2 DEF TbufSwap
  <2>4. CASE TbufWrites
    <3>1. CASE /\ tbuf_A_unused(tbuf) > 0
               /\ tbuf' = [tbuf EXCEPT !.A_len = @ + 1]
               /\ tbuf_wrote' = [tbuf_wrote EXCEPT ![tbuf.A] = @ + 1]
      <4>1. tbuf # NULL /\ tbuf \in TbufStates
        BY <2>4 DEF TbufWrites
      <4>2. tbuf' \in TbufStates /\ tbuf' # NULL
        BY <3>1, <4>1 DEF TbufStates, tbuf_A_unused
      <4>3. /\ tbuf'.A = tbuf.A /\ tbuf'.A_len = tbuf.A_len + 1
            /\ tbuf'.B = tbuf.B /\ tbuf'.B_len = tbuf.B_len
            /\ tbuf.A \in {1, 2} /\ tbuf.B \in {1, 2} /\ tbuf.A_len < TbufCap
        BY <3>1, <4>1 DEF TbufStates, tbuf_A_unused
      <4> QED BY <3>1, <4>1, <4>2, <4>3
    <3>2. CASE /\ tbuf_B_unused(tbuf) > 0
               /\ tbuf' = [tbuf EXCEPT !.B_len = @ + 1]
               /\ tbuf_wrote' = [tbuf_wrote EXCEPT ![tbuf.B] = @ + 1]
      <4>1. tbuf # NULL /\ tbuf \in TbufStates
        BY <2>4 DEF TbufWrites
      <4>2. tbuf' \in TbufStates /\ tbuf' # NULL
        BY <3>2, <4>1 DEF TbufStates, tbuf_B_unused
      <4>3. /\ tbuf'.A = tbuf.A /\ tbuf'.A_len = tbuf.A_len
            /\ tbuf'.B = tbuf.B /\ tbuf'.B_len = tbuf.B_len + 1
            /\ tbuf.A \in {1, 2} /\ tbuf.B \in {1, 2} /\ tbuf.B_len < TbufCap
        BY <3>2, <4>1 DEF TbufStates, tbuf_B_unused
      <4> QED BY <3>2, <4>1, <4>2, <4>3
    <3> QED BY <2>4, <3>1, <3>2 DEF TbufWrites
  <2>5. CASE UNCHANGED tbuf_vars BY <2>5 DEF tbuf_vars
  <2> QED BY <2>1, <2>2, <2>3, <2>4, <2>5 DEF TbufNext
<1>3. Inv => TbufGoesOn
  OBVIOUS
<1> QED BY <1>1, <1>2, <1>3, PTL DEF TbufSpec

-----------------------------------------------------------------------------
(* Vstack.                                                                 *)

VstackStates ==
  UNION {[elems : [0..c-1 -> VstackElems], stored : 0..c, cap : {c}] : c \in Nat}

(* What is on the stack is, element for element, what was pushed.          *)
VstackAgrees ==
  /\ vstack_pushed \in Seq(VstackElems)
  /\ vstack = NULL => vstack_pushed = <<>>
  /\ vstack # NULL =>
       /\ vstack \in VstackStates
       /\ vstack.stored = Len(vstack_pushed)
       /\ \A i \in 1..Len(vstack_pushed) : vstack.elems[i - 1] = vstack_pushed[i]

(* For every set of elements and capacity: what vstack_pop and vstack_top  *)
(* would give is the element pushed last among those still on the stack    *)
(* (vstack_push 100-116, vstack_top_direct 154-164).                       *)
THEOREM VstackIsLifo ==
  ASSUME VstackElems # {}, NULL \notin VstackStates
  PROVE  VstackSpec => []VstackLifo
<1> USE VstackAssumption
<1>1. VstackInit => VstackAgrees
  BY DEF VstackInit, VstackAgrees
<1>2. VstackAgrees /\ [VstackNext]_vstack_vars => VstackAgrees'
  <2> SUFFICES ASSUME VstackAgrees, [VstackNext]_vstack_vars PROVE VstackAgrees'
    OBVIOUS
  <2> USE DEF VstackAgrees
  <2>1. CASE VstackCreate BY <2>1 DEF VstackCreate, vstack_init, VstackStates
  <2>2. CASE VstackDestroy BY <2>2 DEF VstackDestroy
  <2>3. CASE VstackPop
    <3>1. /\ Front(vstack_pushed) \in Seq(VstackElems)
          /\ Len(Front(vstack_pushed)) = Len(vstack_pushed) - 1
          /\ \A i \in 1..Len(vstack_pushed) - 1 : Front(vstack_pushed)[i] = vstack_pushed[i]
      <4>1. Len(vstack_pushed) \in Nat \ {0}
        BY <2>3 DEF VstackPop
      <4>2. \A i \in 1..Len(vstack_pushed) - 1 : vstack_pushed[i] \in VstackElems
        BY ElementOfSeq, <4>1
      <4>3. PICK n \in Int : n = Len(vstack_pushed) - 1
        BY <4>1
      <4>4. /\ SubSeq(vstack_pushed, 1, n) \in Seq(VstackElems)
            /\ Len(SubSeq(vstack_pushed, 1, n)) = IF 1 <= n THEN n - 1 + 1 ELSE 0
            /\ \A i \in 1..n - 1 + 1 :
                 SubSeq(vstack_pushed, 1, n)[i] = vstack_pushed[1 + i - 1]
        BY <4>2, <4>3, SubSeqProperties
      <4>5. Front(vstack_pushed) = SubSeq(vstack_pushed, 1, n)
        BY <4>3 DEF Front
      <4> QED BY <4>1, <4>3, <4>4, <4>5
    <3>2. vstack # NULL /\ vstack \in VstackStates
      BY <2>3 DEF VstackPop
    <3>3. vstack' \in VstackStates /\ vstack' # NULL
          /\ vstack'.elems = vstack.elems /\ vstack'.stored = vstack.stored - 1
      <4>1. PICK c \in Nat :
              vstack \in [elems : [0..c-1 -> VstackElems], stored : 0..c, cap : {c}]
        BY <3>2 DEF VstackStates
      <4>2. vstack.stored > 0 /\ vstack' = [vstack EXCEPT !.stored = vstack.stored - 1]
        BY <2>3 DEF VstackPop
      <4>a. vstack.stored - 1 \in 0..c
        BY <4>1, <4>2
      <4>3. vstack' \in [elems : [0..c-1 -> VstackElems], stored : 0..c, cap : {c}]
        BY <4>1, <4>2, <4>a
      <4>4. vstack' \in VstackStates /\ vstack' # NULL
        BY <4>3 DEF VstackStates
      <4>5. vstack'.elems = vstack.elems /\ vstack'.stored = vstack.stored - 1
        BY <4>1, <4>2
      <4> QED BY <4>4, <4>5
    <3> QED BY <2>3, <3>1, <3>2, <3>3 DEF VstackPop
  <2>4. CASE \E e \in VstackElems : VstackPush(e)
    <3>1. PICK e \in VstackElems : VstackPush(e)
      BY <2>4
    <3>2. /\ vstack_pushed' \in Seq(VstackElems) /\ Len(vstack_pushed') = Len(vstack_pushed) + 1
          /\ \A i \in 1..Len(vstack_pushed) : vstack_pushed'[i] = vstack_pushed[i]
          /\ vstack_pushed'[Len(vstack_pushed) + 1] = e
      BY <3>1, AppendProperties DEF VstackPush
    <3>3. vstack # NULL /\ vstack \in VstackStates
      BY <3>1 DEF VstackPush
    <3>4. /\ vstack' \in VstackStates /\ vstack' # NULL
          /\ vstack'.stored = vstack.stored + 1
          /\ vstack'.elems[vstack.stored] = e
          /\ \A i \in 0..vstack.stored - 1 : vstack'.elems[i] = vstack.elems[i]
      <4>1. PICK c \in Nat :
              vstack \in [elems : [0..c-1 -> VstackElems], stored : 0..c, cap : {c}]
        BY <3>3 DEF VstackStates
      <4>2. /\ vstack.elems \in [0..c-1 -> VstackElems]
            /\ vstack.stored \in 0..c-1 /\ vstack.cap = c
        BY <3>1, <4>1 DEF VstackPush
      <4>3. vstack' \in [elems : [0..c-1 -> VstackElems], stored : 0..c, cap : {c}]
        <5>1. vstack' = [elems |-> [vstack.elems EXCEPT ![vstack.stored] = e],
                         stored |-> vstack.stored + 1, cap |-> c]
          BY <3>1, <4>1, <4>2 DEF VstackPush
        <5>2. [vstack.elems EXCEPT ![vstack.stored] = e] \in [0..c-1 -> VstackElems]
          BY <4>2
        <5>3. vstack.stored + 1 \in 0..c
          BY <4>2
        <5> QED BY <5>1, <5>2, <5>3
      <4>4. vstack' \in VstackStates
        BY <4>3 DEF VstackStates
      <4>5. /\ vstack'.elems = [vstack.elems EXCEPT ![vstack.stored] = e]
            /\ vstack'.stored = vstack.stored + 1
        BY <3>1, <4>1 DEF VstackPush
      <4> QED BY <4>2, <4>4, <4>5
    <3> QED BY <3>1, <3>2, <3>3, <3>4 DEF VstackPush
  <2>5. CASE UNCHANGED vstack_vars BY <2>5 DEF vstack_vars
  <2> QED BY <2>1, <2>2, <2>3, <2>4, <2>5 DEF VstackNext
<1>3. VstackAgrees => VstackLifo
  BY DEF VstackAgrees, VstackLifo, vstack_top_direct, Last
<1> QED BY <1>1, <1>2, <1>3, PTL DEF VstackSpec
-----------------------------------------------------------------------------
(* Vpool.                                                                  *)

Elements == Nat \X Nat

VpoolStates ==
  [capacity : Seq(Nat \ {0}) \ {<<>>}, stored : Nat, next_free : Seq(Elements),
   kind : VpoolKinds, held : SUBSET Elements, early : BOOLEAN]

(* What VpoolOneUser says of a pool.                                       *)
Sound(p) ==
  /\ IsInjective(p.next_free)
  /\ ToSet(p.next_free) \cap p.held = {}
  /\ ToSet(p.next_free) \cup p.held \subseteq VpoolUsed(p)
  /\ p.stored <= p.capacity[VpoolChunk(p)]
  /\ ~p.early => VpoolUsed(p) = p.held \cup ToSet(p.next_free)

(* The stack of returned elements loses its head, which is not in the rest.*)
LEMMA StackPops ==
  ASSUME NEW S, NEW s \in Seq(S), s # <<>>, IsInjective(s)
  PROVE  /\ Tail(s) \in Seq(S) /\ IsInjective(Tail(s)) /\ Head(s) \in S
         /\ ToSet(s) = {Head(s)} \cup ToSet(Tail(s))
         /\ Head(s) \notin ToSet(Tail(s))
<1>1. /\ Len(s) \in Nat \ {0} /\ Head(s) = s[1] /\ Head(s) \in S
      /\ Tail(s) \in Seq(S) /\ Len(Tail(s)) = Len(s) - 1
      /\ \A i \in 1..Len(Tail(s)) : Tail(s)[i] = s[i + 1]
      /\ DOMAIN s = 1..Len(s) /\ DOMAIN Tail(s) = 1..Len(Tail(s))
  BY HeadTailProperties, LenProperties
<1>2. IsInjective(Tail(s))
  BY <1>1 DEF IsInjective
<1>3. Head(s) \notin ToSet(Tail(s))
  BY <1>1 DEF IsInjective, ToSet
<1>4. ASSUME NEW i \in 1..Len(s) PROVE s[i] \in {Head(s)} \cup ToSet(Tail(s))
  <2>1. CASE i = 1 BY <1>1, <2>1
  <2>2. CASE i # 1
    <3>1. i - 1 \in 1..Len(Tail(s)) /\ Tail(s)[i - 1] = s[i]
      BY <1>1, <2>2
    <3> QED BY <1>1, <3>1 DEF ToSet
  <2> QED BY <2>1, <2>2
<1>5. ToSet(Tail(s)) \subseteq ToSet(s) /\ Head(s) \in ToSet(s)
  BY <1>1 DEF ToSet
<1>6. ToSet(s) \subseteq {Head(s)} \cup ToSet(Tail(s))
  BY <1>1, <1>4 DEF ToSet
<1> QED BY <1>1, <1>2, <1>3, <1>5, <1>6

(* And gets another one.                                                   *)
LEMMA StackPushes ==
  ASSUME NEW S, NEW s \in Seq(S), IsInjective(s), NEW e \in S, e \notin ToSet(s)
  PROVE  /\ <<e>> \o s \in Seq(S) /\ IsInjective(<<e>> \o s)
         /\ ToSet(<<e>> \o s) = {e} \cup ToSet(s)
<1> DEFINE r == <<e>> \o s
<1>1. /\ r \in Seq(S) /\ Len(r) = Len(s) + 1 /\ r[1] = e /\ Len(s) \in Nat
      /\ \A i \in 1..Len(s) : r[i + 1] = s[i]
      /\ DOMAIN s = 1..Len(s) /\ DOMAIN r = 1..Len(r)
  <2>1. <<e>> \in Seq(S) /\ Len(<<e>>) = 1 /\ <<e>>[1] = e
    OBVIOUS
  <2> QED BY <2>1, ConcatProperties, LenProperties
<1> HIDE DEF r
<1>2. ASSUME NEW i \in 1..Len(r), i # 1
      PROVE  i - 1 \in 1..Len(s) /\ r[i] = s[i - 1] /\ r[i] \in ToSet(s)
  <2>1. i - 1 \in 1..Len(s) /\ (i - 1) + 1 = i
    BY <1>1, <1>2
  <2>2. r[(i - 1) + 1] = s[i - 1]
    BY <1>1, <2>1
  <2> QED BY <1>1, <2>1, <2>2 DEF ToSet
<1>3. IsInjective(r)
  <2> SUFFICES ASSUME NEW a \in 1..Len(r), NEW b \in 1..Len(r), r[a] = r[b]
               PROVE  a = b
    BY <1>1 DEF IsInjective
  <2>1. CASE a # 1 /\ b # 1
    <3>1. /\ a - 1 \in 1..Len(s) /\ r[a] = s[a - 1]
          /\ b - 1 \in 1..Len(s) /\ r[b] = s[b - 1]
      BY <1>2, <2>1
    <3>2. a - 1 = b - 1
      BY <1>1, <3>1 DEF IsInjective
    <3> QED BY <1>1, <3>2
  <2>2. CASE a = 1 \/ b = 1
    BY <1>1, <1>2, <2>2
  <2> QED BY <2>1, <2>2
<1>4. ToSet(r) = {e} \cup ToSet(s)
  <2>1. e \in ToSet(r)
    BY <1>1 DEF ToSet
  <2>3. ASSUME NEW i \in 1..Len(s) PROVE s[i] \in ToSet(r)
    <3>1. i + 1 \in 1..Len(r) /\ r[i + 1] = s[i]
      BY <1>1
    <3> QED BY <1>1, <3>1 DEF ToSet
  <2>2. ToSet(r) \subseteq {e} \cup ToSet(s)
    BY <1>1, <1>2 DEF ToSet
  <2>4. ToSet(s) \subseteq ToSet(r)
    BY <1>1, <2>3 DEF ToSet
  <2> QED BY <2>1, <2>2, <2>4
<1> QED BY <1>1, <1>3, <1>4 DEF r

(* An element that was handed out has a place in its chunk.                *)
LEMMA UsedMeans ==
  ASSUME NEW p, NEW x
  PROVE  x \in VpoolUsed(p) <=>
           \E c \in 1..VpoolChunk(p) :
             \E i \in 1..(IF c = VpoolChunk(p) THEN p.stored ELSE p.capacity[c]) :
               x = <<c, i>>
BY DEF VpoolUsed

LEMMA UsedOf ==
  \A p : \A x \in VpoolUsed(p) :
    \E c \in 1..VpoolChunk(p) :
      \E i \in 1..(IF c = VpoolChunk(p) THEN p.stored ELSE p.capacity[c]) : x = <<c, i>>
BY UsedMeans

(* The next element of the chunk is new.                                   *)
LEMMA BumpAdds ==
  ASSUME NEW p \in VpoolStates, NEW q, q = VpoolBump(p)
  PROVE  /\ VpoolUsed(q) = VpoolUsed(p) \cup {<<VpoolChunk(p), p.stored + 1>>}
         /\ <<VpoolChunk(p), p.stored + 1>> \notin VpoolUsed(p)
<1>1. /\ VpoolChunk(p) \in Nat \ {0} /\ VpoolChunk(q) = VpoolChunk(p)
      /\ p.stored \in Nat /\ q.stored = p.stored + 1 /\ q.capacity = p.capacity
  BY LenProperties, EmptySeq DEF VpoolStates, VpoolBump, VpoolChunk
<1>2. <<VpoolChunk(p), p.stored + 1>> \notin VpoolUsed(p)
  <2> SUFFICES ASSUME NEW c \in 1..VpoolChunk(p),
                      NEW i \in 1..(IF c = VpoolChunk(p) THEN p.stored ELSE p.capacity[c]),
                      <<VpoolChunk(p), p.stored + 1>> = <<c, i>>
               PROVE  FALSE
    BY UsedMeans
  <2> QED BY <1>1
<1>3. ASSUME NEW x
      PROVE  x \in VpoolUsed(q) <=> x \in VpoolUsed(p) \/ x = <<VpoolChunk(p), p.stored + 1>>
  BY <1>1, UsedMeans
<1> QED BY <1>2, <1>3

(* A new chunk is empty, and the one before it counts as used up.          *)
LEMMA NewChunkKeeps ==
  ASSUME NEW p \in VpoolStates, NEW n \in Nat \ {0}, p.stored <= p.capacity[VpoolChunk(p)],
         NEW q, q.capacity = Append(p.capacity, n), q.stored = 0
  PROVE  /\ VpoolUsed(p) \subseteq VpoolUsed(q)
         /\ vpool_full(p) => VpoolUsed(q) = VpoolUsed(p)
<1>1. /\ VpoolChunk(p) \in Nat \ {0} /\ VpoolChunk(q) = VpoolChunk(p) + 1
      /\ p.stored \in Nat
      /\ \A c \in 1..VpoolChunk(p) : q.capacity[c] = p.capacity[c] /\ p.capacity[c] \in Nat
  BY LenProperties, EmptySeq, AppendProperties, ElementOfSeq DEF VpoolStates, VpoolChunk
<1>2. ASSUME NEW x, x \in VpoolUsed(p) PROVE x \in VpoolUsed(q)
  <2>1. PICK c \in 1..VpoolChunk(p) :
          \E i \in 1..(IF c = VpoolChunk(p) THEN p.stored ELSE p.capacity[c]) : x = <<c, i>>
    BY <1>2, UsedMeans
  <2>2. PICK i \in 1..(IF c = VpoolChunk(p) THEN p.stored ELSE p.capacity[c]) : x = <<c, i>>
    BY <2>1
  <2>3. c \in 1..VpoolChunk(q) /\ c # VpoolChunk(q) /\ q.capacity[c] = p.capacity[c]
    <3> DEFINE m == VpoolChunk(p)
    <3>1. m \in Nat \ {0} /\ VpoolChunk(q) = m + 1 /\ c \in 1..m
      BY <1>1
    <3>2. q.capacity[c] = p.capacity[c]
      BY <1>1
    <3> HIDE DEF m
    <3> QED BY <3>1, <3>2
  <2>4. i \in 1..p.capacity[c]
    <3>1. CASE c = VpoolChunk(p) BY <1>1, <3>1
    <3>2. CASE c # VpoolChunk(p) BY <3>2
    <3> QED BY <3>1, <3>2
  <2> QED BY <2>2, <2>3, <2>4, UsedMeans
<1>3. ASSUME NEW x, x \in VpoolUsed(q), vpool_full(p) PROVE x \in VpoolUsed(p)
  <2>1. PICK c \in 1..VpoolChunk(q) :
          \E i \in 1..(IF c = VpoolChunk(q) THEN q.stored ELSE q.capacity[c]) : x = <<c, i>>
    <3>1. x \in VpoolUsed(q)
      BY <1>3
    <3> QED BY <3>1, UsedOf, ZenonT(40)
  <2>2. PICK i \in 1..(IF c = VpoolChunk(q) THEN q.stored ELSE q.capacity[c]) : x = <<c, i>>
    BY <2>1
  <2>3. c \in 1..VpoolChunk(p) /\ i \in 1..p.capacity[c]
    <3>1. CASE c = VpoolChunk(q) BY <1>1, <3>1
    <3>2. CASE c # VpoolChunk(q)
      <4>1. c \in 1..VpoolChunk(p)
        BY <1>1, <3>2
      <4>2. q.capacity[c] = p.capacity[c]
        BY <1>1, <4>1
      <4> QED BY <3>2, <4>1, <4>2
    <3> QED BY <3>1, <3>2
  <2> QED BY <1>1, <1>3, <2>2, <2>3, UsedMeans DEF vpool_full
<1> QED BY <1>2, <1>3

(* A pool stays sound when its next element goes to a caller.              *)
LEMMA BumpIsSound ==
  ASSUME NEW p \in VpoolStates, Sound(p), ~vpool_full(p), p.next_free = <<>>
  PROVE  VpoolBump(p) \in VpoolStates /\ Sound(VpoolBump(p))
<1> DEFINE new == <<VpoolChunk(p), p.stored + 1>>
<1>1. PICK q : q = VpoolBump(p)
  OBVIOUS
<1>2. /\ q.capacity = p.capacity /\ q.stored = p.stored + 1 /\ q.next_free = p.next_free
      /\ q.kind = p.kind /\ q.held = p.held \cup {new} /\ q.early = p.early
      /\ VpoolChunk(q) = VpoolChunk(p)
  BY <1>1 DEF VpoolBump, VpoolStates, VpoolChunk
<1>3. VpoolChunk(p) \in Nat \ {0} /\ p.stored \in Nat /\ p.capacity[VpoolChunk(p)] \in Nat
  BY LenProperties, EmptySeq, ElementOfSeq DEF VpoolStates, VpoolChunk
<1>4. q \in VpoolStates
  <2>1. p.held \cup {new} \in SUBSET Elements /\ p.stored + 1 \in Nat
    BY <1>3 DEF VpoolStates, Elements
  <2>2. q = [p EXCEPT !.stored = p.stored + 1, !.held = p.held \cup {new}]
    BY <1>1 DEF VpoolBump
  <2> HIDE DEF new
  <2> QED BY <2>1, <2>2 DEF VpoolStates
<1>5. VpoolUsed(q) = VpoolUsed(p) \cup {new} /\ new \notin VpoolUsed(p)
  BY <1>1, BumpAdds
<1>6. q.stored <= q.capacity[VpoolChunk(q)]
  BY <1>2, <1>3 DEF vpool_full, Sound
<1> HIDE DEF new
<1>7. Sound(q)
  BY <1>2, <1>5, <1>6 DEF Sound
<1> QED BY <1>1, <1>4, <1>7

LEMMA AppendIsState ==
  ASSUME NEW p \in VpoolStates, NEW n \in Nat \ {0}
  PROVE  [p EXCEPT !.capacity = Append(@, n), !.stored = 0] \in VpoolStates
<1>1. Append(p.capacity, n) \in Seq(Nat \ {0}) \ {<<>>}
  BY AppendProperties, EmptySeq DEF VpoolStates
<1> QED BY <1>1 DEF VpoolStates

(* And when a chunk is added to it, as long as the one before it is used   *)
(* up or the pool is marked as extended early.                             *)
LEMMA NewChunkIsSound ==
  ASSUME NEW p \in VpoolStates, Sound(p), NEW n \in Nat \ {0}, NEW q \in VpoolStates,
         q.capacity = Append(p.capacity, n), q.stored = 0, q.next_free = p.next_free,
         q.held = p.held, q.early = (p.early \/ ~vpool_full(p))
  PROVE  Sound(q)
<1>1. p.stored <= p.capacity[VpoolChunk(p)] /\ p.early \in BOOLEAN
  BY DEF Sound, VpoolStates
<1>2. /\ VpoolUsed(p) \subseteq VpoolUsed(q)
      /\ vpool_full(p) => VpoolUsed(q) = VpoolUsed(p)
  BY <1>1, NewChunkKeeps
<1>3. q.stored <= q.capacity[VpoolChunk(q)]
  BY AppendProperties DEF VpoolStates, VpoolChunk
<1>4. ~q.early => vpool_full(p) /\ ~p.early
  BY <1>1
<1> QED BY <1>2, <1>3, <1>4 DEF Sound

(* For every bound, number of elements and course of calls: no element of  *)
(* a pool has two users, none waits in the stack while somebody has it or  *)
(* waits there twice, and, unless the pool was extended while it had room, *)
(* none is lost (vpool_alloc 131-178, vpool_dealloc 180-194,               *)
(* vpool_guided_extend 204-223).                                           *)
THEOREM VpoolIsSound == VpoolSpec => []VpoolOneUser
<1> DEFINE Inv == vpool # NULL => vpool \in VpoolStates /\ Sound(vpool)
<1> USE VpoolAssumption
<1>1. VpoolInit => Inv
  BY DEF VpoolInit
<1>2. Inv /\ [VpoolNext]_vpool => Inv'
  <2> SUFFICES ASSUME Inv, [VpoolNext]_vpool, vpool' # NULL
               PROVE  vpool' \in VpoolStates /\ Sound(vpool')
    OBVIOUS
  <2>1. CASE VpoolCreate
    <3>1. PICK n \in Nat \ {0}, kind \in VpoolKinds : vpool' = vpool_init(n, kind)
      BY <2>1 DEF VpoolCreate
    <3>2. PICK q : q = vpool_init(n, kind)
      OBVIOUS
    <3>3. /\ q.capacity = <<n>> /\ q.stored = 0 /\ q.next_free = <<>> /\ q.held = {}
          /\ VpoolChunk(q) = 1
      BY <3>2 DEF vpool_init, VpoolChunk
    <3>4. q \in VpoolStates
      BY <3>2 DEF vpool_init, VpoolStates
    <3>5. VpoolUsed(q) = {}
      BY <3>3, UsedOf
    <3>6. Sound(q)
      BY <3>3, <3>5 DEF Sound, IsInjective, ToSet
    <3> QED BY <3>1, <3>2, <3>4, <3>6
  <2>2. CASE VpoolReuses
    <3>1. vpool \in VpoolStates /\ Sound(vpool) /\ vpool.next_free # <<>>
      BY <2>2 DEF VpoolReuses
    <3>2. PICK p \in VpoolStates : p = vpool
      BY <3>1
    <3>3. PICK q : q = vpool'
      OBVIOUS
    <3>4. q = [p EXCEPT !.next_free = Tail(@), !.held = @ \cup {Head(p.next_free)}]
      BY <2>2, <3>2, <3>3 DEF VpoolReuses
    <3>5. /\ Tail(p.next_free) \in Seq(Elements) /\ IsInjective(Tail(p.next_free))
          /\ Head(p.next_free) \in Elements
          /\ ToSet(p.next_free) = {Head(p.next_free)} \cup ToSet(Tail(p.next_free))
          /\ Head(p.next_free) \notin ToSet(Tail(p.next_free))
      BY <3>1, <3>2, StackPops DEF VpoolStates, Sound
    <3>6. q \in VpoolStates
      BY <3>4, <3>5 DEF VpoolStates
    <3>7. /\ q.next_free = Tail(p.next_free) /\ q.held = p.held \cup {Head(p.next_free)}
          /\ q.capacity = p.capacity /\ q.stored = p.stored /\ q.early = p.early
      BY <3>4 DEF VpoolStates
    <3>8. VpoolUsed(q) = VpoolUsed(p) /\ VpoolChunk(q) = VpoolChunk(p)
      BY <3>7 DEF VpoolUsed, VpoolChunk
    <3>9. Sound(q)
      BY <3>1, <3>2, <3>5, <3>7, <3>8 DEF Sound
    <3> QED BY <3>3, <3>6, <3>9
  <2>3. CASE VpoolBumps
    BY <2>3, BumpIsSound DEF VpoolBumps
  <2>4. CASE VpoolGrows
    <3>1. vpool \in VpoolStates /\ Sound(vpool)
      BY <2>4 DEF VpoolGrows
    <3>2. PICK p \in VpoolStates : p = vpool
      BY <3>1
    <3>3. p.capacity[VpoolChunk(p)] \in Nat \ {0}
      BY LenProperties, EmptySeq, ElementOfSeq DEF VpoolStates, VpoolChunk
    <3>4. PICK n \in Nat \ {0} : n = 2 * p.capacity[VpoolChunk(p)]
      BY <3>3
    <3>5. PICK q : q = VpoolNewChunk(p, n)
      OBVIOUS
    <3>6. /\ q.capacity = Append(p.capacity, n) /\ q.stored = 0 /\ q.held = p.held
          /\ q.next_free = p.next_free /\ q.early = p.early
      BY <3>5 DEF VpoolNewChunk, VpoolStates
    <3>7. q \in VpoolStates
      BY <3>5, AppendIsState DEF VpoolNewChunk
    <3>8. Sound(q)
      BY <2>4, <3>1, <3>2, <3>6, <3>7, NewChunkIsSound DEF VpoolGrows, VpoolStates
    <3>9. ~vpool_full(q)
      BY <3>6, AppendProperties DEF vpool_full, VpoolChunk, VpoolStates
    <3>10. q.next_free = <<>> /\ vpool' = VpoolBump(q)
      BY <2>4, <3>2, <3>4, <3>5, <3>6 DEF VpoolGrows
    <3> QED BY <3>7, <3>8, <3>9, <3>10, BumpIsSound
  <2>5. CASE vpool # NULL /\ \E elem \in vpool.held : VpoolDealloc(elem)
    <3>1. PICK e \in vpool.held : VpoolDealloc(e)
      BY <2>5
    <3>2. PICK p \in VpoolStates : p = vpool /\ Sound(p)
      BY <2>5
    <3>3. PICK q : q = vpool'
      OBVIOUS
    <3>4. q = [p EXCEPT !.next_free = <<e>> \o @, !.held = @ \ {e}]
      BY <3>1, <3>2, <3>3 DEF VpoolDealloc
    <3>5. e \in p.held /\ e \in Elements /\ e \notin ToSet(p.next_free)
      BY <3>1, <3>2 DEF VpoolStates, Sound
    <3>6. /\ <<e>> \o p.next_free \in Seq(Elements) /\ IsInjective(<<e>> \o p.next_free)
          /\ ToSet(<<e>> \o p.next_free) = {e} \cup ToSet(p.next_free)
      BY <3>2, <3>5, StackPushes DEF VpoolStates, Sound
    <3>7. q \in VpoolStates
      BY <3>4, <3>6 DEF VpoolStates
    <3>8. /\ q.next_free = <<e>> \o p.next_free /\ q.held = p.held \ {e}
          /\ q.capacity = p.capacity /\ q.stored = p.stored /\ q.early = p.early
      BY <3>4 DEF VpoolStates
    <3>9. VpoolUsed(q) = VpoolUsed(p) /\ VpoolChunk(q) = VpoolChunk(p)
      BY <3>8 DEF VpoolUsed, VpoolChunk
    <3>10. Sound(q)
      BY <3>2, <3>5, <3>6, <3>8, <3>9 DEF Sound
    <3> QED BY <3>3, <3>7, <3>10
  <2>6. CASE \E n \in VpoolItems : VpoolGuidedExtend(n)
    <3>1. PICK n \in Nat \ {0} : VpoolGuidedExtend(n)
      BY <2>6
    <3>2. PICK p \in VpoolStates : p = vpool /\ Sound(p)
      BY <3>1 DEF VpoolGuidedExtend
    <3>3. PICK q : q = VpoolExtend(p, n)
      OBVIOUS
    <3>4. /\ q.capacity = Append(p.capacity, n) /\ q.stored = 0 /\ q.held = p.held
          /\ q.next_free = p.next_free /\ q.early = (p.early \/ ~vpool_full(p))
      BY <3>3 DEF VpoolExtend, VpoolNewChunk, VpoolStates
    <3>5. q \in VpoolStates
      <4>1. VpoolNewChunk(p, n) \in VpoolStates
        BY AppendIsState DEF VpoolNewChunk
      <4> QED BY <3>3, <4>1 DEF VpoolExtend, VpoolStates, VpoolKinds, VpoolNewChunk, vpool_full
    <3>6. Sound(q)
      BY <3>2, <3>4, <3>5, NewChunkIsSound
    <3> QED BY <3>1, <3>2, <3>3, <3>5, <3>6 DEF VpoolGuidedExtend
  <2>7. CASE VpoolDestroy
    BY <2>7 DEF VpoolDestroy
  <2>8. CASE UNCHANGED vpool
    BY <2>8 DEF Sound, VpoolUsed, VpoolChunk
  <2> QED BY <2>1, <2>2, <2>3, <2>4, <2>5, <2>6, <2>7, <2>8 DEF VpoolNext
<1>3. Inv => VpoolOneUser
  BY DEF Sound, VpoolOneUser
<1> QED BY <1>1, <1>2, <1>3, PTL DEF VpoolSpec

-----------------------------------------------------------------------------
(* Fqueue.                                                                 *)

FqueueQueues == [bytes : [0..FqueueCap-1 -> Nat], write : Int, read : Int]
FqueueStates == [in : FqueueQueues, out : FqueueQueues, hand : Seq(Nat)]

(* The cursors are in order, and s, or what a queue holds, goes on with    *)
(* the input after `from` bytes of it.                                     *)
FqueueCursors(q) ==
  /\ q \in FqueueQueues
  /\ 0 <= q.read /\ q.read <= q.write /\ q.write <= FqueueCap
FqueueGoesOn(s, from) == \A k \in 1..Len(s) : s[k] = from + k
FqueueHolds(q, from) ==
  \A i \in q.read .. q.write - 1 : q.bytes[i] = from + (i - q.read) + 1

(* The input in its order: written, in the one queue, in the hand, and in  *)
(* the other queue, which keeps what was read before.                      *)
FqueueInOrder(in, out, hand, input, written) ==
  /\ FqueueCursors(in) /\ FqueueCursors(out)
  /\ hand \in Seq(Nat) /\ written \in Seq(Nat) /\ input \in 0..FqueueInput
  /\ FqueueGoesOn(written, 0)
  /\ FqueueHolds(out, Len(written))
  /\ FqueueGoesOn(hand, Len(written) + fqueue_used(out))
  /\ \A i \in 0 .. in.write - 1 : in.bytes[i] = input - in.write + i + 1
  /\ input = Len(written) + fqueue_used(out) + Len(hand) + fqueue_used(in)

FqueueInv ==
  /\ fqueue = NULL => fqueue_io = [read |-> 0, written |-> <<>>] /\ ~fqueue_odd
  /\ fqueue # NULL => fqueue \in FqueueStates
  /\ fqueue # NULL /\ ~fqueue_odd =>
       /\ fqueue_io \in [read : Nat, written : Seq(Nat)]
       /\ FqueueInOrder(fqueue.in, fqueue.out, fqueue.hand, fqueue_io.read, fqueue_io.written)
  /\ fqueue_odd \in BOOLEAN

LEMMA FqueueSliceIs ==
  ASSUME NEW q \in FqueueQueues, NEW from \in Nat, NEW n \in Nat, from + n <= FqueueCap
  PROVE  /\ FqueueSlice(q, from, n) \in Seq(Nat) /\ Len(FqueueSlice(q, from, n)) = n
         /\ \A k \in 1..n : FqueueSlice(q, from, n)[k] = q.bytes[from + k - 1]
<1>1. \A k \in 1..n : q.bytes[from + k - 1] \in Nat
  <2> TAKE k \in 1..n
  <2>1. from + k - 1 \in 0..FqueueCap-1
    BY FqueueAssumption
  <2> QED BY <2>1 DEF FqueueQueues
<1>2. FqueueSlice(q, from, n) \in [1..n -> Nat]
  BY <1>1 DEF FqueueSlice
<1>3. \A m \in Nat : \A s \in [1..m -> Nat] : s \in Seq(Nat) /\ Len(s) = m
  OBVIOUS
<1>4. \A k \in 1..n : FqueueSlice(q, from, n)[k] = q.bytes[from + k - 1]
  BY DEF FqueueSlice
<1> QED BY <1>2, <1>3, <1>4

(* The least of two numbers.                                               *)
LEMMA LeastOfTwo ==
  ASSUME NEW a \in Int, NEW b \in Int
  PROVE  Min({a, b}) = IF a <= b THEN a ELSE b
<1>1. PICK m \in {a, b} : m = IF a <= b THEN a ELSE b
  OBVIOUS
<1>2. \A y \in {a, b} : m <= y
  BY <1>1
<1>3. \A x \in {a, b} : (\A y \in {a, b} : x <= y) => x = m
  BY <1>1
<1> QED BY <1>1, <1>2, <1>3 DEF Min

LEMMA FqueueStoreIs ==
  ASSUME NEW q, FqueueCursors(q), NEW data \in Seq(Nat), q.write + Len(data) <= FqueueCap
  PROVE  /\ FqueueStore(q, data) \in [0..FqueueCap-1 -> Nat]
         /\ \A i \in 0 .. q.write - 1 : FqueueStore(q, data)[i] = q.bytes[i]
         /\ \A k \in 1..Len(data) : FqueueStore(q, data)[q.write + k - 1] = data[k]
<1>a. /\ q \in FqueueQueues /\ FqueueCap \in Nat /\ q.write \in Int /\ 0 <= q.write
      /\ q.bytes \in [0..FqueueCap-1 -> Nat]
  BY FqueueAssumption DEF FqueueCursors, FqueueQueues
<1>b. Len(data) \in Nat /\ \A k \in 1..Len(data) : data[k] \in Nat
  OBVIOUS
<1>1. /\ q \in FqueueQueues /\ Len(data) \in Nat /\ \A k \in 1..Len(data) : data[k] \in Nat
      /\ FqueueCap \in Nat /\ q.write \in Int /\ 0 <= q.write /\ q.bytes \in [0..FqueueCap-1 -> Nat]
  BY <1>a, <1>b
<1>2. ASSUME NEW i \in 0..FqueueCap-1
      PROVE  (IF i \in q.write .. q.write + Len(data) - 1 THEN data[i - q.write + 1]
              ELSE q.bytes[i]) \in Nat
  <2>1. CASE i \in q.write .. q.write + Len(data) - 1
    <3>1. \A j, w, l \in Int : j \in w .. w + l - 1 => j - w + 1 \in 1..l
      OBVIOUS
    <3>2. i - q.write + 1 \in 1..Len(data)
      BY <1>a, <1>b, <2>1, <3>1, SMTT(40)
    <3>3. data[i - q.write + 1] \in Nat
      BY <1>b, <3>2
    <3> QED BY <2>1, <3>3
  <2> QED BY <1>1, <2>1
<1>3. FqueueStore(q, data) \in [0..FqueueCap-1 -> Nat]
  BY <1>2 DEF FqueueStore
<1>4. \A i \in 0 .. q.write - 1 : FqueueStore(q, data)[i] = q.bytes[i]
  BY <1>1 DEF FqueueStore
<1>5. ASSUME NEW k \in 1..Len(data)
      PROVE  FqueueStore(q, data)[q.write + k - 1] = data[k]
  <2>1. /\ q.write + k - 1 \in 0..FqueueCap-1
        /\ q.write + k - 1 \in q.write .. q.write + Len(data) - 1
        /\ (q.write + k - 1) - q.write + 1 = k
    <3>1. k \in Nat /\ 1 <= k /\ k <= Len(data) /\ q.write + Len(data) <= FqueueCap
      BY <1>1
    <3>2. \A w, l, c \in Int : 0 <= w /\ w + l <= c /\ k <= l =>
            /\ w + k - 1 \in 0..c-1 /\ w + k - 1 \in w .. w + l - 1
            /\ (w + k - 1) - w + 1 = k
      BY <3>1
    <3>3. q.write \in Int /\ Len(data) \in Int /\ FqueueCap \in Int /\ 0 <= q.write
      BY <1>1
    <3> QED BY <3>1, <3>2, <3>3
  <2> QED BY <2>1 DEF FqueueStore
<1> QED BY <1>3, <1>4, <1>5

LEMMA FqueuePutIs ==
  ASSUME NEW q, FqueueCursors(q), NEW data \in Seq(Nat), q.write + Len(data) <= FqueueCap
  PROVE  /\ FqueueCursors(FqueuePut(q, data))
         /\ FqueuePut(q, data).read = q.read
         /\ FqueuePut(q, data).write = q.write + Len(data)
         /\ \A i \in 0 .. q.write - 1 : FqueuePut(q, data).bytes[i] = q.bytes[i]
         /\ \A k \in 1..Len(data) : FqueuePut(q, data).bytes[q.write + k - 1] = data[k]
<1>1. q \in FqueueQueues /\ Len(data) \in Nat
  BY DEF FqueueCursors
<1>2. /\ FqueueStore(q, data) \in [0..FqueueCap-1 -> Nat]
      /\ \A i \in 0 .. q.write - 1 : FqueueStore(q, data)[i] = q.bytes[i]
      /\ \A k \in 1..Len(data) : FqueueStore(q, data)[q.write + k - 1] = data[k]
  BY FqueueStoreIs
<1>3. /\ FqueuePut(q, data) \in FqueueQueues
      /\ FqueuePut(q, data).bytes = FqueueStore(q, data)
      /\ FqueuePut(q, data).write = q.write + Len(data) /\ FqueuePut(q, data).read = q.read
  <2>1. /\ q.write \in Int /\ q.write + Len(data) \in Int /\ q.read \in Int
        /\ FqueueStore(q, data) \in [0..FqueueCap-1 -> Nat]
    BY <1>1, <1>2 DEF FqueueQueues
  <2>2. q \in [bytes : [0..FqueueCap-1 -> Nat], write : Int, read : Int]
    BY <1>1 DEF FqueueQueues
  <2> DEFINE store == FqueueStore(q, data)
             by == Len(data)
  <2>3. FqueuePut(q, data) = [q EXCEPT !.bytes = store, !.write = @ + by]
    BY DEF FqueuePut
  <2> HIDE DEF store, by
  <2>4. /\ [q EXCEPT !.bytes = store, !.write = @ + by].bytes = store
        /\ [q EXCEPT !.bytes = store, !.write = @ + by].write = q.write + by
        /\ [q EXCEPT !.bytes = store, !.write = @ + by].read = q.read
    BY <2>2
  <2>5. [q EXCEPT !.bytes = store, !.write = @ + by]
          \in [bytes : [0..FqueueCap-1 -> Nat], write : Int, read : Int]
    BY <2>1, <2>2 DEF store, by
  <2> QED BY <2>3, <2>4, <2>5 DEF store, by, FqueueQueues
<1> QED BY <1>1, <1>2, <1>3 DEF FqueueCursors, FqueueQueues

(* Bytes from one place to the next.                                       *)
LEMMA FqueueTakes ==
  ASSUME NEW in, NEW out, NEW input, NEW written, NEW size \in Nat,
         FqueueInOrder(in, out, <<>>, input, written), size <= fqueue_used(in)
  PROVE  LET data == FqueueSlice(in, in.read, size)
         IN /\ data \in Seq(Nat) /\ Len(data) = size
            /\ FqueueInOrder(FqueueGet(in, size), out, data, input, written)
<1> DEFINE data == FqueueSlice(in, in.read, size)
<1>1. in \in FqueueQueues /\ FqueueCursors(in)
  BY DEF FqueueInOrder, FqueueCursors
<1>2. in.read \in Nat /\ in.read + size <= FqueueCap
  <2>1. in.read \in Int /\ in.write \in Int /\ FqueueCap \in Int
    BY <1>1, FqueueAssumption DEF FqueueQueues
  <2> QED BY <1>1, <2>1 DEF FqueueCursors, fqueue_used
<1>3. data \in Seq(Nat) /\ Len(data) = size /\ \A k \in 1..size : data[k] = in.bytes[in.read + k - 1]
  BY <1>1, <1>2, FqueueSliceIs
<1>4. FqueueGet(in, size) = [bytes |-> in.bytes, write |-> in.write, read |-> in.read + size]
  BY <1>1 DEF FqueueGet, FqueueQueues
<1>5. FqueueCursors(FqueueGet(in, size))
  BY <1>1, <1>4 DEF FqueueCursors, FqueueQueues, fqueue_used
<1>6. /\ \A i \in 0 .. in.write - 1 : in.bytes[i] = input - in.write + i + 1
      /\ input = Len(written) + fqueue_used(out) + fqueue_used(in)
      /\ Len(written) \in Nat /\ fqueue_used(out) \in Nat /\ input \in Nat
  BY DEF FqueueInOrder, FqueueCursors, FqueueQueues, fqueue_used
<1>7. FqueueGoesOn(data, Len(written) + fqueue_used(out))
  <2> SUFFICES ASSUME NEW k \in 1..size
               PROVE  data[k] = Len(written) + fqueue_used(out) + k
    BY <1>3 DEF FqueueGoesOn
  <2>1. in.read + k - 1 \in 0 .. in.write - 1 /\ in.read \in Int /\ in.write \in Int
    BY <1>1, <1>2 DEF FqueueCursors, FqueueQueues, fqueue_used
  <2>2. in.bytes[in.read + k - 1] = input - in.write + (in.read + k - 1) + 1
    BY <1>6, <2>1
  <2>3. data[k] = input - in.write + (in.read + k - 1) + 1
    BY <1>3, <2>2
  <2>4. fqueue_used(in) = in.write - in.read
    BY DEF fqueue_used
  <2>5. k \in Int /\ in.read \in Int /\ in.write \in Int /\ input \in Int
        /\ Len(written) \in Int /\ fqueue_used(out) \in Int
        /\ input = Len(written) + fqueue_used(out) + (in.write - in.read)
    BY <1>6, <2>1, <2>4
  <2>6. \A l, u, r, w \in Int : (l + u + (w - r)) - w + (r + k - 1) + 1 = l + u + k
    BY <2>5
  <2>7. input - in.write + (in.read + k - 1) + 1 = Len(written) + fqueue_used(out) + k
    BY <2>5, <2>6, SMTT(40)
  <2> HIDE DEF data
  <2> QED BY <2>3, <2>7
<1> HIDE DEF data
<1>8. input = Len(written) + fqueue_used(out) + Len(data) + fqueue_used(FqueueGet(in, size))
  BY <1>1, <1>3, <1>4, <1>6 DEF fqueue_used, FqueueQueues
<1>9. FqueueInOrder(FqueueGet(in, size), out, data, input, written)
  BY <1>3, <1>4, <1>5, <1>6, <1>7, <1>8 DEF FqueueInOrder
<1> QED BY <1>3, <1>9 DEF data

LEMMA FqueueGives ==
  ASSUME NEW in, NEW out, NEW hand, NEW input, NEW written,
         FqueueInOrder(in, out, hand, input, written), Len(hand) <= fqueue_unused(out)
  PROVE  FqueueInOrder(in, FqueuePut(out, hand), <<>>, input, written)
<1> DEFINE put == FqueuePut(out, hand)
<1>1. FqueueCursors(out) /\ out \in FqueueQueues /\ hand \in Seq(Nat) /\ Len(hand) \in Nat
      /\ Len(written) \in Nat
  BY DEF FqueueInOrder, FqueueCursors
<1>2. out.write + Len(hand) <= FqueueCap
  BY <1>1, FqueueAssumption DEF fqueue_unused, FqueueQueues
<1>3. /\ FqueueCursors(put)
      /\ put.read = out.read /\ put.write = out.write + Len(hand)
      /\ \A i \in 0 .. out.write - 1 : put.bytes[i] = out.bytes[i]
      /\ \A k \in 1..Len(hand) : put.bytes[out.write + k - 1] = hand[k]
  BY <1>1, <1>2, FqueuePutIs
<1> HIDE DEF put
<1>4. FqueueHolds(put, Len(written))
  <2> SUFFICES ASSUME NEW i \in put.read .. put.write - 1
               PROVE  put.bytes[i] = Len(written) + (i - put.read) + 1
    BY DEF FqueueHolds
  <2>1. /\ i \in Int /\ out.read \in Nat /\ out.write \in Nat /\ out.read <= i
        /\ i < out.write + Len(hand)
    BY <1>1, <1>3 DEF FqueueCursors, FqueueQueues
  <2>2. CASE i < out.write
    <3>1. i \in out.read .. out.write - 1 /\ i \in 0 .. out.write - 1
      BY <2>1, <2>2
    <3>2. out.bytes[i] = Len(written) + (i - out.read) + 1
      BY <3>1 DEF FqueueInOrder, FqueueHolds
    <3> QED BY <1>3, <3>1, <3>2
  <2>3. CASE i >= out.write
    <3>1. PICK k \in 1..Len(hand) : i = out.write + k - 1
      <4>1. i - out.write + 1 \in 1..Len(hand) /\ i = out.write + (i - out.write + 1) - 1
        BY <1>1, <2>1, <2>3, SMTT(40)
      <4> QED BY <4>1
    <3>2. hand[k] = Len(written) + (out.write - out.read) + k
      BY <3>1 DEF FqueueInOrder, FqueueGoesOn, fqueue_used
    <3>3. put.bytes[i] = hand[k]
      BY <1>3, <3>1
    <3>4. put.read = out.read /\ k \in Int
      BY <1>3
    <3>5. \A l, r, w, j \in Int : l + (w - r) + j = l + ((w + j - 1) - r) + 1
      OBVIOUS
    <3>6. Len(written) \in Int /\ out.read \in Int /\ out.write \in Int
      BY <1>1, <2>1
    <3>7. put.bytes[i] = Len(written) + ((out.write + k - 1) - out.read) + 1
      BY <3>2, <3>3, <3>4, <3>5, <3>6
    <3> QED BY <3>1, <3>4, <3>7
  <2> QED BY <2>1, <2>2, <2>3
<1>5. fqueue_used(put) = fqueue_used(out) + Len(hand)
  BY <1>1, <1>3 DEF fqueue_used, FqueueQueues
<1>6. /\ in \in FqueueQueues /\ FqueueCursors(in) /\ written \in Seq(Nat) /\ input \in 0..FqueueInput
      /\ FqueueGoesOn(written, 0) /\ fqueue_used(out) \in Int /\ fqueue_used(in) \in Int
      /\ \A i \in 0 .. in.write - 1 : in.bytes[i] = input - in.write + i + 1
      /\ input = Len(written) + fqueue_used(out) + Len(hand) + fqueue_used(in)
  BY DEF FqueueInOrder, FqueueCursors, FqueueQueues, fqueue_used
<1>7. <<>> \in Seq(Nat) /\ Len(<<>>) = 0 /\ \A from : FqueueGoesOn(<<>>, from)
  BY DEF FqueueGoesOn
<1>8. input = Len(written) + fqueue_used(put) + Len(<<>>) + fqueue_used(in)
  BY <1>1, <1>5, <1>6, <1>7
<1>9. FqueueInOrder(in, put, <<>>, input, written)
  BY <1>3, <1>4, <1>6, <1>7, <1>8 DEF FqueueInOrder
<1> QED BY <1>9 DEF put

(* A queue whose bytes were moved down to the start of the buffer.         *)
LEMMA FqueueFolds ==
  ASSUME NEW q, FqueueCursors(q)
  PROVE  LET folded == [bytes |-> [i \in 0..FqueueCap-1 |->
                                    IF i < fqueue_used(q) THEN q.bytes[q.read + i]
                                    ELSE q.bytes[i]],
                        write |-> fqueue_used(q), read |-> 0]
         IN /\ FqueueCursors(folded)
            /\ \A i \in 0 .. fqueue_used(q) - 1 : folded.bytes[i] = q.bytes[q.read + i]
<1> DEFINE bytes == [i \in 0..FqueueCap-1 |->
                      IF i < fqueue_used(q) THEN q.bytes[q.read + i] ELSE q.bytes[i]]
           folded == [bytes |-> bytes, write |-> fqueue_used(q), read |-> 0]
<1>1. /\ FqueueCap \in Nat /\ q.write \in Int /\ q.read \in Int /\ q.bytes \in [0..FqueueCap-1 -> Nat]
      /\ 0 <= q.read /\ q.read <= q.write /\ q.write <= FqueueCap
      /\ fqueue_used(q) = q.write - q.read
  BY FqueueAssumption DEF FqueueCursors, FqueueQueues, fqueue_used
<1>2. \A i \in 0 .. fqueue_used(q) - 1 : q.read + i \in 0..FqueueCap-1 /\ i \in 0..FqueueCap-1
  BY <1>1, SMTT(40)
<1>3. bytes \in [0..FqueueCap-1 -> Nat]
  <2> SUFFICES ASSUME NEW i \in 0..FqueueCap-1
               PROVE  (IF i < fqueue_used(q) THEN q.bytes[q.read + i] ELSE q.bytes[i]) \in Nat
    OBVIOUS
  <2>1. i < fqueue_used(q) => q.read + i \in 0..FqueueCap-1
    BY <1>1
  <2> QED BY <1>1, <2>1
<1>4. \A i \in 0 .. fqueue_used(q) - 1 : bytes[i] = q.bytes[q.read + i]
  BY <1>1, <1>2
<1> HIDE DEF bytes
<1>5. FqueueCursors(folded)
  BY <1>1, <1>3 DEF FqueueCursors, FqueueQueues
<1> QED BY <1>4, <1>5 DEF bytes

LEMMA FqueueFoldsIn ==
  ASSUME NEW in, NEW out, NEW hand, NEW input, NEW written, NEW folded,
         FqueueInOrder(in, out, hand, input, written), FqueueCursors(folded),
         folded.write = fqueue_used(in), folded.read = 0,
         \A i \in 0 .. fqueue_used(in) - 1 : folded.bytes[i] = in.bytes[in.read + i]
  PROVE  FqueueInOrder(folded, out, hand, input, written)
<1>1. in.write \in Int /\ in.read \in Int /\ 0 <= in.read /\ in.read <= in.write /\ input \in Int
      /\ fqueue_used(in) = in.write - in.read
  BY DEF FqueueInOrder, FqueueCursors, FqueueQueues, fqueue_used
<1>2. fqueue_used(folded) = fqueue_used(in)
  BY <1>1 DEF fqueue_used
<1>3. ASSUME NEW i \in 0 .. folded.write - 1
      PROVE  folded.bytes[i] = input - folded.write + i + 1
  <2>1. in.read + i \in 0 .. in.write - 1
    BY <1>1
  <2>2. in.bytes[in.read + i] = input - in.write + (in.read + i) + 1
    BY <2>1 DEF FqueueInOrder
  <2>3. \A r, w, n \in Int : n - w + (r + i) + 1 = n - (w - r) + i + 1
    BY <1>1
  <2>4. i \in Int /\ folded.bytes[i] = in.bytes[in.read + i]
    BY <1>1
  <2>5. folded.bytes[i] = input - (in.write - in.read) + i + 1
    BY <1>1, <2>2, <2>3, <2>4
  <2> QED BY <1>1, <2>5
<1> QED BY <1>2, <1>3 DEF FqueueInOrder

LEMMA FqueueFoldsOut ==
  ASSUME NEW in, NEW out, NEW hand, NEW input, NEW written, NEW folded,
         FqueueInOrder(in, out, hand, input, written), FqueueCursors(folded),
         folded.write = fqueue_used(out), folded.read = 0,
         \A i \in 0 .. fqueue_used(out) - 1 : folded.bytes[i] = out.bytes[out.read + i]
  PROVE  FqueueInOrder(in, folded, hand, input, written)
<1>1. out.write \in Int /\ out.read \in Int /\ 0 <= out.read /\ out.read <= out.write
      /\ fqueue_used(out) = out.write - out.read
  BY DEF FqueueInOrder, FqueueCursors, FqueueQueues, fqueue_used
<1>2. fqueue_used(folded) = fqueue_used(out)
  BY <1>1 DEF fqueue_used
<1>3. ASSUME NEW i \in folded.read .. folded.write - 1
      PROVE  folded.bytes[i] = Len(written) + (i - folded.read) + 1
  <2>1. out.read + i \in out.read .. out.write - 1 /\ i \in 0 .. fqueue_used(out) - 1
    BY <1>1
  <2>2. out.bytes[out.read + i] = Len(written) + ((out.read + i) - out.read) + 1
    BY <2>1 DEF FqueueInOrder, FqueueHolds
  <2>3. (out.read + i) - out.read = i /\ i - folded.read = i
    BY <1>1
  <2> QED BY <2>1, <2>2, <2>3
<1> QED BY <1>2, <1>3 DEF FqueueInOrder, FqueueHolds

(* What a full read puts into the first queue goes on with the input.      *)
LEMMA FqueueReads ==
  ASSUME NEW in, NEW out, NEW hand, NEW input, NEW written, NEW got \in Nat, NEW data,
         FqueueInOrder(in, out, hand, input, written),
         got <= fqueue_unused(in), input + got <= FqueueInput,
         data = [i \in 1..got |-> input + i]
  PROVE  /\ data \in Seq(Nat) /\ Len(data) = got
         /\ FqueueStore(in, data) \in [0..FqueueCap-1 -> Nat]
         /\ FqueueInOrder(FqueuePut(in, data), out, hand, input + got, written)
<1> DEFINE put == FqueuePut(in, data)
<1>1. /\ in.write \in Int /\ in.read \in Int /\ 0 <= in.read /\ in.read <= in.write /\ input \in Nat
      /\ FqueueCursors(in) /\ FqueueCap \in Int /\ input \in 0..FqueueInput /\ FqueueInput \in Nat
  BY FqueueAssumption, SMTT(40) DEF FqueueInOrder, FqueueCursors, FqueueQueues
<1>2. data \in Seq(Nat) /\ Len(data) = got /\ \A k \in 1..got : data[k] = input + k
  <2>1. data \in [1..got -> Nat] /\ \A k \in 1..got : data[k] = input + k
    BY <1>1
  <2>2. \A m \in Nat : \A s \in [1..m -> Nat] : s \in Seq(Nat) /\ Len(s) = m
    OBVIOUS
  <2> QED BY <2>1, <2>2
<1>3. in.write + Len(data) <= FqueueCap
  BY <1>1, <1>2 DEF fqueue_unused
<1>4. FqueueStore(in, data) \in [0..FqueueCap-1 -> Nat]
  BY <1>1, <1>2, <1>3, FqueueStoreIs
<1>5. /\ FqueueCursors(put)
      /\ put.read = in.read /\ put.write = in.write + got
      /\ \A i \in 0 .. in.write - 1 : put.bytes[i] = in.bytes[i]
      /\ \A k \in 1..got : put.bytes[in.write + k - 1] = data[k]
  <2>1. FqueueCursors(in) /\ data \in Seq(Nat)
    BY <1>1, <1>2
  <2>2. /\ FqueueCursors(put)
        /\ put.read = in.read /\ put.write = in.write + Len(data)
        /\ \A i \in 0 .. in.write - 1 : put.bytes[i] = in.bytes[i]
        /\ \A k \in 1..Len(data) : put.bytes[in.write + k - 1] = data[k]
    BY <1>3, <2>1, FqueuePutIs, ZenonT(40)
  <2> QED BY <1>2, <2>2
<1> HIDE DEF put
<1>6. ASSUME NEW i \in 0 .. put.write - 1
      PROVE  put.bytes[i] = (input + got) - put.write + i + 1
  <2>0. i \in Int /\ put.write = in.write + got
    BY <1>1, <1>5
  <2>1. CASE i < in.write
    <3>1. i \in 0 .. in.write - 1
      BY <1>1, <2>1
    <3>2. in.bytes[i] = input - in.write + i + 1
      BY <3>1 DEF FqueueInOrder
    <3>3. \A w, n \in Int : n - w + i + 1 = (n + got) - (w + got) + i + 1
      OBVIOUS
    <3> QED BY <1>1, <1>5, <3>1, <3>2, <3>3
  <2>2. CASE i >= in.write
    <3>1. i - in.write + 1 \in 1..got /\ i = in.write + (i - in.write + 1) - 1
      BY <1>1, <1>5, <2>2, SMTT(40)
    <3>2. put.bytes[i] = input + (i - in.write + 1)
      BY <1>2, <1>5, <3>1
    <3>3. \A w, n \in Int : n + (i - w + 1) = (n + got) - (w + got) + i + 1
      BY <2>0
    <3>4. input + (i - in.write + 1) = (input + got) - (in.write + got) + i + 1
      BY <1>1, <3>3
    <3> QED BY <2>0, <3>2, <3>4
  <2> QED BY <1>1, <2>1, <2>2
<1>7. fqueue_used(put) = fqueue_used(in) + got
  BY <1>1, <1>5 DEF fqueue_used
<1>8. /\ fqueue_used(in) \in Int /\ fqueue_used(out) \in Int /\ hand \in Seq(Nat) /\ written \in Seq(Nat)
      /\ input = Len(written) + fqueue_used(out) + Len(hand) + fqueue_used(in)
  BY SMTT(40) DEF FqueueInOrder, FqueueCursors, FqueueQueues, fqueue_used
<1>9. input + got = Len(written) + fqueue_used(out) + Len(hand) + fqueue_used(put)
  BY <1>7, <1>8
<1>10. input + got \in 0..FqueueInput
  BY <1>1
<1>11. FqueueInOrder(put, out, hand, input + got, written)
  BY <1>5, <1>6, <1>9, <1>10 DEF FqueueInOrder
<1> QED BY <1>2, <1>4, <1>11 DEF put

(* What is written is the second queue when nothing of it was read.        *)
LEMMA FqueueWrites ==
  ASSUME NEW in, NEW out, NEW hand, NEW input, NEW written, NEW emptied,
         FqueueInOrder(in, out, hand, input, written), out.read = 0,
         FqueueCursors(emptied), emptied.write = 0, emptied.read = 0
  PROVE  FqueueInOrder(in, emptied, hand, input,
                       written \o FqueueSlice(out, 0, fqueue_used(out)))
<1> DEFINE data == FqueueSlice(out, 0, fqueue_used(out))
           wrote == written \o data
<1>1. /\ out.write \in Nat /\ out \in FqueueQueues /\ out.write <= FqueueCap
      /\ fqueue_used(out) = out.write /\ written \in Seq(Nat) /\ hand \in Seq(Nat)
      /\ fqueue_used(in) \in Int /\ input \in 0..FqueueInput
  BY DEF FqueueInOrder, FqueueCursors, FqueueQueues, fqueue_used
<1>2. /\ data \in Seq(Nat) /\ Len(data) = out.write
      /\ \A k \in 1..out.write : data[k] = out.bytes[0 + k - 1]
  <2>1. fqueue_used(out) \in Nat /\ 0 \in Nat /\ 0 + fqueue_used(out) <= FqueueCap
    BY <1>1, FqueueAssumption
  <2>2. /\ data \in Seq(Nat) /\ Len(data) = fqueue_used(out)
        /\ \A k \in 1..fqueue_used(out) : data[k] = out.bytes[0 + k - 1]
    BY <1>1, <2>1, FqueueSliceIs
  <2> QED BY <1>1, <2>2
<1> HIDE DEF data
<1>3. \A k \in 1..out.write : data[k] = Len(written) + k
  <2> TAKE k \in 1..out.write
  <2>1. k - 1 \in out.read .. out.write - 1 /\ 0 + k - 1 = k - 1 /\ (k - 1) - 0 + 1 = k
    BY <1>1
  <2>2. out.bytes[k - 1] = Len(written) + ((k - 1) - out.read) + 1
    BY <2>1 DEF FqueueInOrder, FqueueHolds
  <2> QED BY <1>1, <1>2, <2>1, <2>2
<1>4. /\ wrote \in Seq(Nat) /\ Len(wrote) = Len(written) + out.write
      /\ \A k \in 1 .. Len(written) + out.write :
           wrote[k] = IF k <= Len(written) THEN written[k] ELSE data[k - Len(written)]
  <2>1. /\ wrote \in Seq(Nat) /\ Len(wrote) = Len(written) + Len(data)
        /\ \A k \in 1 .. Len(written) + Len(data) :
             wrote[k] = IF k <= Len(written) THEN written[k] ELSE data[k - Len(written)]
    <3>1. written \in Seq(Nat) /\ data \in Seq(Nat)
      BY <1>1, <1>2
    <3> QED BY <3>1, ConcatProperties
  <2>2. Len(data) = out.write
    BY <1>2
  <2> QED BY <2>1, <2>2
<1> HIDE DEF wrote
<1>5. FqueueGoesOn(wrote, 0)
  <2> SUFFICES ASSUME NEW k \in 1 .. Len(written) + out.write
               PROVE  wrote[k] = 0 + k
    BY <1>4 DEF FqueueGoesOn
  <2>1. CASE k <= Len(written)
    <3>1. k \in 1..Len(written) /\ wrote[k] = written[k]
      BY <1>1, <1>4, <2>1
    <3> QED BY <3>1 DEF FqueueInOrder, FqueueGoesOn
  <2>2. CASE k > Len(written)
    <3>1. k - Len(written) \in 1..out.write /\ Len(written) \in Nat
      BY <1>1, <2>2
    <3> QED BY <1>1, <1>3, <1>4, <2>2, <3>1
  <2> QED BY <1>1, <2>1, <2>2
<1>6. fqueue_used(emptied) = 0 /\ \A from : FqueueHolds(emptied, from)
  BY DEF fqueue_used, FqueueHolds
<1>7. Len(wrote) + fqueue_used(emptied) = Len(written) + fqueue_used(out)
  BY <1>1, <1>4, <1>6
<1>8. /\ FqueueGoesOn(hand, Len(written) + fqueue_used(out))
      /\ input = Len(written) + fqueue_used(out) + Len(hand) + fqueue_used(in)
  BY DEF FqueueInOrder
<1>9. FqueueInOrder(in, emptied, hand, input, wrote)
  BY <1>1, <1>4, <1>5, <1>6, <1>7, <1>8 DEF FqueueInOrder
<1> QED BY <1>9 DEF wrote, data

(* A step keeps the shape of the queues, and their order or says it is odd.*)
LEMMA FqueueStep ==
  ASSUME FqueueInv, fqueue # NULL, ~fqueue_odd, FqueueNext, ~FqueueDestroy
  PROVE  /\ fqueue' \in FqueueStates /\ fqueue_odd' \in BOOLEAN
         /\ ~fqueue_odd' =>
              /\ fqueue_io' \in [read : Nat, written : Seq(Nat)]
              /\ FqueueInOrder(fqueue'.in, fqueue'.out, fqueue'.hand,
                               fqueue_io'.read, fqueue_io'.written)
<1> DEFINE InOrder == FqueueInOrder(fqueue.in, fqueue.out, fqueue.hand,
                                    fqueue_io.read, fqueue_io.written)
<1>1. /\ fqueue \in FqueueStates /\ fqueue_io \in [read : Nat, written : Seq(Nat)] /\ InOrder
      /\ fqueue_odd = FALSE
  BY DEF FqueueInv
<1>2. /\ fqueue.in \in FqueueQueues /\ fqueue.out \in FqueueQueues /\ fqueue.hand \in Seq(Nat)
      /\ FqueueCursors(fqueue.in) /\ FqueueCursors(fqueue.out)
      /\ fqueue_io.read \in 0..FqueueInput /\ fqueue_io.written \in Seq(Nat)
      /\ FqueueCap \in Nat /\ FqueueInput \in Nat
  BY <1>1, FqueueAssumption DEF FqueueStates, FqueueInOrder
<1>3. \A q : FqueueCursors(q) => q \in FqueueQueues
  BY DEF FqueueCursors
<1> HIDE DEF InOrder
<1>4. CASE FqueueEnqueue
  <2>1. FqueueInOrder(fqueue.in, FqueuePut(fqueue.out, fqueue.hand), <<>>,
                      fqueue_io.read, fqueue_io.written)
    BY <1>1, <1>4, FqueueGives DEF FqueueEnqueue, InOrder
  <2>2. FqueuePut(fqueue.out, fqueue.hand) \in FqueueQueues
    BY <1>3, <2>1 DEF FqueueInOrder
  <2>3. /\ fqueue' \in FqueueStates /\ fqueue'.in = fqueue.in /\ fqueue'.hand = <<>>
        /\ fqueue'.out = FqueuePut(fqueue.out, fqueue.hand)
    <3> DEFINE out == FqueuePut(fqueue.out, fqueue.hand)
    <3>1. fqueue' = [fqueue EXCEPT !.out = out, !.hand = <<>>] /\ <<>> \in Seq(Nat)
      BY <1>4 DEF FqueueEnqueue
    <3>2. out \in FqueueQueues
      BY <2>2
    <3> HIDE DEF out
    <3>3. fqueue' \in FqueueStates /\ fqueue'.in = fqueue.in /\ fqueue'.hand = <<>> /\ fqueue'.out = out
      BY <1>1, <3>1, <3>2 DEF FqueueStates
    <3> QED BY <3>3 DEF out
  <2> QED BY <1>1, <1>4, <2>1, <2>3 DEF FqueueEnqueue
<1>5. ASSUME NEW n \in 1..FqueueCap, FqueueDequeue(n)
      PROVE  /\ fqueue' \in FqueueStates /\ UNCHANGED <<fqueue_io, fqueue_odd>>
             /\ FqueueInOrder(fqueue'.in, fqueue'.out, fqueue'.hand,
                              fqueue_io.read, fqueue_io.written)
  <2> DEFINE data == FqueueSlice(fqueue.in, fqueue.in.read, n)
  <2>1. FqueueInOrder(FqueueGet(fqueue.in, n), fqueue.out, data,
                      fqueue_io.read, fqueue_io.written) /\ data \in Seq(Nat)
    <3>1. n \in Nat /\ n <= fqueue_used(fqueue.in) /\ fqueue.hand = <<>>
      BY <1>5 DEF FqueueDequeue
    <3>2. FqueueInOrder(fqueue.in, fqueue.out, <<>>, fqueue_io.read, fqueue_io.written)
      BY <1>1, <3>1 DEF InOrder
    <3> QED BY <3>1, <3>2, FqueueTakes
  <2>2. FqueueGet(fqueue.in, n) \in FqueueQueues
    BY <1>3, <2>1 DEF FqueueInOrder
  <2>3. fqueue' = [fqueue EXCEPT !.in = FqueueGet(@, n), !.hand = data]
    BY <1>5 DEF FqueueDequeue
  <2> HIDE DEF data
  <2>4. /\ fqueue' \in FqueueStates /\ fqueue'.in = FqueueGet(fqueue.in, n)
        /\ fqueue'.out = fqueue.out /\ fqueue'.hand = data
    BY <1>1, <2>1, <2>2, <2>3 DEF FqueueStates
  <2> QED BY <1>5, <2>1, <2>4 DEF FqueueDequeue
<1>6. ASSUME NEW n \in 1..FqueueCap, FqueueExchange(n)
      PROVE  /\ fqueue' \in FqueueStates /\ UNCHANGED <<fqueue_io, fqueue_odd>>
             /\ FqueueInOrder(fqueue'.in, fqueue'.out, fqueue'.hand,
                              fqueue_io.read, fqueue_io.written)
  <2> DEFINE data == FqueueSlice(fqueue.in, fqueue.in.read, n)
             in == FqueueGet(fqueue.in, n)
             out == FqueuePut(fqueue.out, data)
  <2>1. FqueueInOrder(in, fqueue.out, data, fqueue_io.read, fqueue_io.written) /\ Len(data) = n
    <3>1. n \in Nat /\ n <= fqueue_used(fqueue.in) /\ fqueue.hand = <<>>
      BY <1>6 DEF FqueueExchange
    <3>2. FqueueInOrder(fqueue.in, fqueue.out, <<>>, fqueue_io.read, fqueue_io.written)
      BY <1>1, <3>1 DEF InOrder
    <3> QED BY <3>1, <3>2, FqueueTakes
  <2>2. FqueueInOrder(in, out, <<>>, fqueue_io.read, fqueue_io.written)
    BY <1>6, <2>1, FqueueGives DEF FqueueExchange
  <2>3. in \in FqueueQueues /\ out \in FqueueQueues
    BY <1>3, <2>2 DEF FqueueInOrder
  <2>4. fqueue' = [fqueue EXCEPT !.in = in, !.out = out] /\ fqueue.hand = <<>>
    BY <1>6 DEF FqueueExchange
  <2> HIDE DEF in, out
  <2>5. fqueue' \in FqueueStates /\ fqueue'.in = in /\ fqueue'.out = out /\ fqueue'.hand = <<>>
    BY <1>1, <2>3, <2>4 DEF FqueueStates
  <2> QED BY <1>6, <2>2, <2>5 DEF FqueueExchange
<1>7. ASSUME NEW side \in {"in", "out"}, FqueueFoldDown(side)
      PROVE  /\ fqueue' \in FqueueStates /\ UNCHANGED <<fqueue_io, fqueue_odd>>
             /\ FqueueInOrder(fqueue'.in, fqueue'.out, fqueue'.hand,
                              fqueue_io.read, fqueue_io.written)
  <2> DEFINE q == fqueue[side]
             folded == [bytes |-> [i \in 0..FqueueCap-1 |->
                                    IF i < fqueue_used(q) THEN q.bytes[q.read + i]
                                    ELSE q.bytes[i]],
                        write |-> fqueue_used(q), read |-> 0]
  <2>1. FqueueCursors(q)
    BY <1>2
  <2>2. /\ FqueueCursors(folded) /\ folded.write = fqueue_used(q) /\ folded.read = 0
        /\ \A i \in 0 .. fqueue_used(q) - 1 : folded.bytes[i] = q.bytes[q.read + i]
    BY <2>1, FqueueFolds
  <2>3. fqueue' = [fqueue EXCEPT ![side] = folded] /\ UNCHANGED <<fqueue_io, fqueue_odd>>
    BY <1>7 DEF FqueueFoldDown
  <2> HIDE DEF folded
  <2>4. folded \in FqueueQueues
    BY <1>3, <2>2
  <2>5. CASE side = "in"
    <3>1. FqueueInOrder(folded, fqueue.out, fqueue.hand, fqueue_io.read, fqueue_io.written)
      BY <1>1, <2>2, <2>5, FqueueFoldsIn DEF InOrder
    <3>2. /\ fqueue' \in FqueueStates /\ fqueue'.in = folded
          /\ fqueue'.out = fqueue.out /\ fqueue'.hand = fqueue.hand
      BY <1>1, <2>3, <2>4, <2>5 DEF FqueueStates
    <3> QED BY <2>3, <3>1, <3>2
  <2>6. CASE side = "out"
    <3>1. FqueueInOrder(fqueue.in, folded, fqueue.hand, fqueue_io.read, fqueue_io.written)
      BY <1>1, <2>2, <2>6, FqueueFoldsOut DEF InOrder
    <3>2. /\ fqueue' \in FqueueStates /\ fqueue'.out = folded
          /\ fqueue'.in = fqueue.in /\ fqueue'.hand = fqueue.hand
      BY <1>1, <2>3, <2>4, <2>6 DEF FqueueStates
    <3> QED BY <2>3, <3>1, <3>2
  <2> QED BY <2>5, <2>6
<1>8. ASSUME NEW n \in 1..FqueueCap, FqueueFenqueue(n)
      PROVE  /\ fqueue' \in FqueueStates /\ fqueue_odd' \in BOOLEAN
             /\ ~fqueue_odd' =>
                  /\ fqueue_io' \in [read : Nat, written : Seq(Nat)]
                  /\ FqueueInOrder(fqueue'.in, fqueue'.out, fqueue'.hand,
                                   fqueue_io'.read, fqueue_io'.written)
  <2> DEFINE got == Min({n, FqueueInput - fqueue_io.read})
             data == [i \in 1..got |-> fqueue_io.read + i]
             put == FqueuePut(fqueue.in, data)
             bytes == FqueueStore(fqueue.in, data)
             in == IF got = n THEN put ELSE [fqueue.in EXCEPT !.bytes = bytes]
  <2>1. got \in 0..n /\ fqueue_io.read + got <= FqueueInput
    <3>1. n \in Int /\ FqueueInput - fqueue_io.read \in Int /\ 0 <= FqueueInput - fqueue_io.read
      BY <1>2
    <3>2. got = IF n <= FqueueInput - fqueue_io.read THEN n ELSE FqueueInput - fqueue_io.read
      BY <3>1, LeastOfTwo
    <3> QED BY <1>2, <3>1, <3>2
  <2>2. /\ fqueue_odd' = (got \in 1..n - 1)
        /\ fqueue_io' = [fqueue_io EXCEPT !.read = @ + got]
        /\ fqueue' = [fqueue EXCEPT !.in = in]
        /\ n <= fqueue_unused(fqueue.in)
    BY <1>1, <1>8 DEF FqueueFenqueue
  <2> HIDE DEF got
  <2>3. got <= fqueue_unused(fqueue.in) /\ got \in Nat
    <3>1. fqueue_unused(fqueue.in) \in Int
      BY <1>2 DEF fqueue_unused, FqueueQueues
    <3> QED BY <2>1, <2>2, <3>1
  <2>4. /\ data \in Seq(Nat) /\ Len(data) = got /\ bytes \in [0..FqueueCap-1 -> Nat]
        /\ FqueueInOrder(put, fqueue.out, fqueue.hand, fqueue_io.read + got, fqueue_io.written)
    <3>1. FqueueInOrder(fqueue.in, fqueue.out, fqueue.hand, fqueue_io.read, fqueue_io.written)
      BY <1>1 DEF InOrder
    <3> QED BY <2>1, <2>3, <3>1, FqueueReads
  <2> HIDE DEF bytes, put
  <2>5. in \in FqueueQueues
    BY <1>2, <1>3, <2>4 DEF FqueueInOrder, FqueueQueues
  <2> HIDE DEF in
  <2>6. /\ fqueue' \in FqueueStates /\ fqueue'.in = in
        /\ fqueue'.out = fqueue.out /\ fqueue'.hand = fqueue.hand
    BY <1>1, <2>2, <2>5 DEF FqueueStates
  <2>7. /\ fqueue_io' \in [read : Nat, written : Seq(Nat)]
        /\ fqueue_io'.read = fqueue_io.read + got /\ fqueue_io'.written = fqueue_io.written
    BY <1>1, <2>1, <2>2, SMTT(40)
  <2>8. CASE got = n
    BY <2>2, <2>4, <2>6, <2>7, <2>8 DEF in
  <2>9. CASE got = 0
    <3>1. bytes = fqueue.in.bytes
      <4>1. Len(data) = 0 /\ fqueue.in.write \in Int
        BY <1>2, <2>4, <2>9 DEF FqueueQueues
      <4>2. \A w, l \in Int : l = 0 => \A i \in Int : ~(i \in w .. w + l - 1)
        OBVIOUS
      <4>5. \A i \in 0..FqueueCap-1 : ~(i \in fqueue.in.write .. fqueue.in.write + Len(data) - 1)
        <5>1. fqueue.in.write \in Int /\ Len(data) \in Int /\ \A i \in 0..FqueueCap-1 : i \in Int
          <6> HIDE DEF data
          <6>1. Len(data) \in Int /\ fqueue.in.write \in Int
            BY <4>1
          <6>2. \A i \in 0..FqueueCap-1 : i \in Int
            BY <1>2
          <6> QED BY <6>1, <6>2
        <5> QED BY <4>1, <4>2, <5>1
      <4>3. bytes = [i \in 0..FqueueCap-1 |-> fqueue.in.bytes[i]]
        BY <4>5 DEF bytes, FqueueStore
      <4>4. fqueue.in.bytes \in [0..FqueueCap-1 -> Nat]
        BY <1>2 DEF FqueueQueues
      <4> QED BY <4>3, <4>4
    <3>2. in = fqueue.in
      BY <1>2, <2>9, <3>1 DEF in, FqueueQueues
    <3>3. fqueue_io.read + got = fqueue_io.read
      BY <1>2, <2>9
    <3> QED BY <1>1, <2>2, <2>6, <2>7, <3>2, <3>3 DEF InOrder
  <2>10. CASE got \in 1..n - 1
    BY <2>2, <2>6, <2>10
  <2> QED BY <2>1, <2>8, <2>9, <2>10
<1>9. ASSUME NEW n \in 1..FqueueCap, NEW wrote \in 0..n, FqueueFdequeue(n, wrote)
      PROVE  /\ fqueue' \in FqueueStates /\ fqueue_odd' \in BOOLEAN
             /\ ~fqueue_odd' =>
                  /\ fqueue_io' \in [read : Nat, written : Seq(Nat)]
                  /\ FqueueInOrder(fqueue'.in, fqueue'.out, fqueue'.hand,
                                   fqueue_io'.read, fqueue_io'.written)
  <2> DEFINE data == FqueueSlice(fqueue.out, 0, wrote)
             emptied == [fqueue.out EXCEPT !.write = @ - fqueue_used(fqueue.out)]
  <2>1. /\ fqueue_io' = [fqueue_io EXCEPT !.written = @ \o data]
        /\ fqueue' = IF wrote < n THEN fqueue ELSE [fqueue EXCEPT !.out = emptied]
        /\ fqueue_odd' = (wrote \in 1..n - 1 \/ fqueue.out.read # 0
                            \/ n # fqueue_used(fqueue.out))
        /\ n <= fqueue_used(fqueue.out)
    <3>1. [fqueue EXCEPT !.out = emptied]
            = [fqueue EXCEPT !.out.write = @ - fqueue_used(fqueue.out)]
      BY <1>1, <1>2 DEF FqueueStates, FqueueQueues
    <3> QED BY <1>1, <1>9, <3>1 DEF FqueueFdequeue
  <2>2. /\ fqueue.out.write \in Nat /\ fqueue.out.read \in Nat
        /\ fqueue_used(fqueue.out) = fqueue.out.write - fqueue.out.read
        /\ fqueue.out.write <= FqueueCap
    BY <1>2 DEF FqueueCursors, FqueueQueues, fqueue_used
  <2>3. /\ emptied \in FqueueQueues /\ emptied.read = fqueue.out.read
        /\ emptied.write = fqueue.out.write - fqueue_used(fqueue.out)
    <3> DEFINE used == fqueue_used(fqueue.out)
    <3>1. used \in Int /\ fqueue.out.write \in Int /\ fqueue.out.write - used \in Int
      BY <2>2
    <3> HIDE DEF used
    <3>2. /\ [fqueue.out EXCEPT !.write = @ - used] \in FqueueQueues
          /\ [fqueue.out EXCEPT !.write = @ - used].read = fqueue.out.read
          /\ [fqueue.out EXCEPT !.write = @ - used].write = fqueue.out.write - used
      BY <1>2, <3>1 DEF FqueueQueues
    <3> QED BY <3>2 DEF used
  <2> HIDE DEF emptied
  <2>4. fqueue' \in FqueueStates
    BY <1>1, <2>1, <2>3 DEF FqueueStates
  <2>5. data \in Seq(Nat) /\ Len(data) = wrote
    <3>1. 0 + wrote <= FqueueCap /\ wrote \in Nat
      <4>1. \A r, w, c, u, v \in Int : 0 <= r /\ u = w - r /\ w <= c /\ n <= u /\ v <= n => 0 + v <= c
        OBVIOUS
      <4>2. fqueue_used(fqueue.out) \in Int /\ FqueueCap \in Int
        BY <1>2, <2>2
      <4> QED BY <2>1, <2>2, <4>1, <4>2
    <3> QED BY <1>2, <3>1, FqueueSliceIs
  <2> HIDE DEF data
  <2>6. /\ fqueue_io.written \o data \in Seq(Nat) /\ fqueue_io' \in [read : Nat, written : Seq(Nat)]
        /\ fqueue_io'.read = fqueue_io.read /\ fqueue_io'.written = fqueue_io.written \o data
    <3>1. fqueue_io.written \o data \in Seq(Nat)
      BY <1>2, <2>5, ConcatProperties
    <3> QED BY <1>1, <2>1, <3>1
  <2>7. CASE wrote = 0
    <3>1. data = <<>> /\ fqueue_io.written \o <<>> = fqueue_io.written
      BY <1>2, <2>5, <2>7, ConcatEmptySeq
    <3>2. fqueue' = fqueue
      BY <2>1, <2>7
    <3> QED BY <1>1, <2>1, <2>4, <2>6, <3>1, <3>2 DEF InOrder
  <2>8. CASE wrote \in 1..n - 1
    BY <2>1, <2>4, <2>8
  <2>9. CASE wrote = n /\ fqueue.out.read = 0 /\ n = fqueue_used(fqueue.out)
    <3>1. FqueueCursors(emptied) /\ emptied.write = 0 /\ emptied.read = 0
      <4>1. emptied.write = 0 /\ emptied.read = 0
        BY <2>2, <2>3, <2>9
      <4> QED BY <1>2, <2>3, <4>1 DEF FqueueCursors
    <3>2. FqueueInOrder(fqueue.in, emptied, fqueue.hand, fqueue_io.read,
                        fqueue_io.written \o FqueueSlice(fqueue.out, 0, fqueue_used(fqueue.out)))
      BY <1>1, <2>9, <3>1, FqueueWrites DEF InOrder
    <3>3. fqueue'.in = fqueue.in /\ fqueue'.out = emptied /\ fqueue'.hand = fqueue.hand
      BY <1>1, <2>1, <2>9 DEF FqueueStates
    <3> QED BY <2>1, <2>4, <2>6, <2>9, <3>2, <3>3 DEF data
  <2>10. CASE wrote = n /\ ~(fqueue.out.read = 0 /\ n = fqueue_used(fqueue.out))
    BY <2>1, <2>4, <2>10
  <2> QED BY <2>7, <2>8, <2>9, <2>10
<1>10. ASSUME NEW side \in {"in", "out"}, NEW n \in 1..FqueueCap,
              FqueueRewindRead(side, n) \/ FqueueRewindWrite(side, n)
       PROVE  fqueue' \in FqueueStates /\ fqueue_odd' = TRUE
  <2>1. fqueue[side].read \in Int /\ fqueue[side].write \in Int /\ fqueue[side] \in FqueueQueues
    BY <1>2 DEF FqueueQueues
  <2>2. CASE FqueueRewindRead(side, n)
    <3> DEFINE q == [fqueue[side] EXCEPT !.read = @ - n]
    <3>1. q \in FqueueQueues
      BY <2>1 DEF FqueueQueues
    <3>2. fqueue' = [fqueue EXCEPT ![side] = q] /\ fqueue_odd' = TRUE
      BY <1>1, <2>1, <2>2 DEF FqueueRewindRead, FqueueStates
    <3> HIDE DEF q
    <3> QED BY <1>1, <3>1, <3>2 DEF FqueueStates
  <2>3. CASE FqueueRewindWrite(side, n)
    <3>1. Min({fqueue[side].read, fqueue[side].write - n}) \in Int
      BY <2>1, LeastOfTwo
    <3> DEFINE least == Min({fqueue[side].read, fqueue[side].write - n})
               q == [fqueue[side] EXCEPT !.write = @ - n, !.read = least]
    <3>2. fqueue' = [fqueue EXCEPT ![side] = q] /\ fqueue_odd' = TRUE
      BY <1>1, <2>1, <2>3 DEF FqueueRewindWrite, FqueueStates
    <3> HIDE DEF least
    <3>4. least \in Int /\ fqueue[side].write - n \in Int
      BY <2>1, <3>1 DEF least
    <3>3. q \in FqueueQueues
      BY <2>1, <3>4 DEF FqueueQueues
    <3> HIDE DEF q
    <3> QED BY <1>1, <3>2, <3>3 DEF FqueueStates
  <2> QED BY <1>10, <2>2, <2>3
<1> QED BY <1>1, <1>4, <1>5, <1>6, <1>7, <1>8, <1>9, <1>10 DEF FqueueNext, FqueueCreate

(* In order, what was written, the queues and the hand are the input.      *)
LEMMA FqueueIsInput ==
  ASSUME NEW in, NEW out, NEW hand, NEW input, NEW written,
         FqueueInOrder(in, out, hand, input, written)
  PROVE  /\ written \o FqueueUsed(out) \o hand \o FqueueUsed(in) = [i \in 1..input |-> i]
         /\ \A i \in 1 .. in.write - 1 : in.bytes[i] = in.bytes[i - 1] + 1
<1>1. /\ in \in FqueueQueues /\ out \in FqueueQueues /\ hand \in Seq(Nat) /\ written \in Seq(Nat)
      /\ input \in Nat /\ Len(written) \in Int /\ Len(hand) \in Int
      /\ input = Len(written) + fqueue_used(out) + Len(hand) + fqueue_used(in)
  BY FqueueAssumption DEF FqueueInOrder, FqueueCursors
<1>2. ASSUME NEW q, FqueueCursors(q)
      PROVE  /\ q.read \in Nat /\ q.write \in Int /\ fqueue_used(q) \in Nat
             /\ q.write = q.read + fqueue_used(q)
             /\ FqueueUsed(q) \in Seq(Nat) /\ Len(FqueueUsed(q)) = fqueue_used(q)
             /\ \A k \in 1..fqueue_used(q) : FqueueUsed(q)[k] = q.bytes[q.read + k - 1]
  <2>1. q \in FqueueQueues /\ FqueueCap \in Nat
    BY <1>2, FqueueAssumption DEF FqueueCursors
  <2>2. /\ q.read \in Nat /\ q.write \in Int /\ fqueue_used(q) \in Nat
        /\ q.write = q.read + fqueue_used(q) /\ q.read + fqueue_used(q) <= FqueueCap
    BY <1>2, <2>1 DEF FqueueCursors, FqueueQueues, fqueue_used
  <2> QED BY <2>1, <2>2, FqueueSliceIs DEF FqueueUsed
<1>3. FqueueCursors(in) /\ FqueueCursors(out)
  BY DEF FqueueInOrder
<1>4. FqueueGoesOn(FqueueUsed(out), Len(written))
  <2> DEFINE r == out.read
             u == fqueue_used(out)
             l == Len(written)
  <2>1. r \in Nat /\ u \in Nat /\ l \in Int /\ out.write = r + u /\ Len(FqueueUsed(out)) = u
    BY <1>1, <1>2, <1>3
  <2>2. \A k \in 1..u : FqueueUsed(out)[k] = out.bytes[r + k - 1]
    BY <1>2, <1>3
  <2>3. \A i \in r .. r + u - 1 : out.bytes[i] = l + (i - r) + 1
    BY <2>1, SMTT(40) DEF FqueueInOrder, FqueueHolds
  <2> SUFFICES ASSUME NEW k \in 1..u
               PROVE  FqueueUsed(out)[k] = l + k
    BY <2>1 DEF FqueueGoesOn
  <2> HIDE DEF r, u, l
  <2>4. r + k - 1 \in r .. r + u - 1 /\ l + ((r + k - 1) - r) + 1 = l + k
    BY <2>1
  <2> QED BY <2>2, <2>3, <2>4
<1>5. FqueueGoesOn(FqueueUsed(in), Len(written) + fqueue_used(out) + Len(hand))
  <2> DEFINE r == in.read
             u == fqueue_used(in)
             l == Len(written) + fqueue_used(out) + Len(hand)
  <2>1. r \in Nat /\ u \in Nat /\ l \in Int /\ in.write = r + u /\ Len(FqueueUsed(in)) = u
        /\ input = l + u
    BY <1>1, <1>2, <1>3
  <2>2. \A k \in 1..u : FqueueUsed(in)[k] = in.bytes[r + k - 1]
    BY <1>2, <1>3
  <2>3. \A i \in 0 .. r + u - 1 : in.bytes[i] = (l + u) - (r + u) + i + 1
    BY <2>1, SMTT(40) DEF FqueueInOrder
  <2> SUFFICES ASSUME NEW k \in 1..u
               PROVE  FqueueUsed(in)[k] = l + k
    BY <2>1 DEF FqueueGoesOn
  <2> HIDE DEF r, u, l
  <2>4. r + k - 1 \in 0 .. r + u - 1 /\ (l + u) - (r + u) + (r + k - 1) + 1 = l + k
    BY <2>1
  <2> QED BY <2>2, <2>3, <2>4
<1>6. ASSUME NEW s \in Seq(Nat), NEW t \in Seq(Nat), FqueueGoesOn(s, 0), FqueueGoesOn(t, Len(s))
      PROVE  s \o t \in Seq(Nat) /\ Len(s \o t) = Len(s) + Len(t) /\ FqueueGoesOn(s \o t, 0)
  <2>1. /\ s \o t \in Seq(Nat) /\ Len(s \o t) = Len(s) + Len(t)
        /\ \A k \in 1 .. Len(s) + Len(t) : (s \o t)[k] = IF k <= Len(s) THEN s[k] ELSE t[k - Len(s)]
    BY ConcatProperties
  <2>2. ASSUME NEW k \in 1 .. Len(s) + Len(t)
        PROVE  (s \o t)[k] = 0 + k
    <3>1. CASE k <= Len(s)
      <4>1. k \in 1..Len(s) /\ (s \o t)[k] = s[k]
        BY <2>1, <3>1
      <4> QED BY <1>6, <4>1 DEF FqueueGoesOn
    <3>2. CASE k > Len(s)
      <4>1. k - Len(s) \in 1..Len(t) /\ (s \o t)[k] = t[k - Len(s)]
        BY <2>1, <3>2
      <4>2. t[k - Len(s)] = Len(s) + (k - Len(s))
        BY <1>6, <4>1 DEF FqueueGoesOn
      <4> QED BY <4>1, <4>2
    <3> QED BY <3>1, <3>2
  <2> QED BY <2>1, <2>2 DEF FqueueGoesOn
<1> DEFINE a == written \o FqueueUsed(out)
           b == a \o hand
           c == b \o FqueueUsed(in)
<1>7. a \in Seq(Nat) /\ Len(a) = Len(written) + fqueue_used(out) /\ FqueueGoesOn(a, 0)
  <2>1. FqueueGoesOn(written, 0)
    BY DEF FqueueInOrder
  <2>2. FqueueUsed(out) \in Seq(Nat) /\ Len(FqueueUsed(out)) = fqueue_used(out)
    BY <1>2, <1>3
  <2> QED BY <1>1, <1>4, <1>6, <2>1, <2>2
<1> HIDE DEF a
<1>8. b \in Seq(Nat) /\ Len(b) = Len(written) + fqueue_used(out) + Len(hand) /\ FqueueGoesOn(b, 0)
  <2>1. FqueueGoesOn(hand, Len(a))
    BY <1>7 DEF FqueueInOrder
  <2> QED BY <1>1, <1>6, <1>7, <2>1, ZenonT(40)
<1> HIDE DEF b
<1>9. c \in Seq(Nat) /\ Len(c) = input /\ FqueueGoesOn(c, 0)
  <2>1. FqueueGoesOn(FqueueUsed(in), Len(b))
    BY <1>5, <1>8
  <2>2. FqueueUsed(in) \in Seq(Nat) /\ Len(FqueueUsed(in)) = fqueue_used(in)
    BY <1>2, <1>3
  <2>3. c \in Seq(Nat) /\ Len(c) = Len(b) + Len(FqueueUsed(in)) /\ FqueueGoesOn(c, 0)
    BY <1>6, <1>8, <2>1, <2>2
  <2> QED BY <1>1, <1>8, <2>2, <2>3
<1> HIDE DEF c
<1>10. c = [i \in 1..input |-> i]
  <2>1. \A k \in 1..input : c[k] = k
    BY <1>9 DEF FqueueGoesOn
  <2>2. c \in [1..input -> Nat]
    BY <1>9
  <2> QED BY <2>1, <2>2
<1>11. ASSUME NEW i \in 1 .. in.write - 1
       PROVE  in.bytes[i] = in.bytes[i - 1] + 1
  <2> DEFINE w == in.write
  <2>1. w \in Int /\ input \in Int
    BY <1>1, <1>2, <1>3
  <2>2. \A j \in 0 .. w - 1 : in.bytes[j] = input - w + j + 1
    BY DEF FqueueInOrder
  <2> HIDE DEF w
  <2>3. i \in 1 .. w - 1
    BY DEF w
  <2>4. i \in 0 .. w - 1 /\ i - 1 \in 0 .. w - 1
    BY <2>1, <2>3
  <2>5. in.bytes[i] = input - w + i + 1 /\ in.bytes[i - 1] = input - w + (i - 1) + 1
    BY <2>2, <2>4
  <2> QED BY <2>1, <2>3, <2>5
<1> QED BY <1>10, <1>11 DEF a, b, c

(* For every size and input, and any course of reads, exchanges, copies by *)
(* hand, folds and writes: the bytes written, in the queues and in the hand*)
(* are the input in its order, until a call came back short or went back   *)
(* (fqueue_fold_down 54-73 to fqueue_fdequeue 216-241).                    *)
THEOREM FqueueKeepsOrder ==
  ASSUME NULL \notin FqueueStates
  PROVE  FqueueSpec => []FqueueConserves
<1>1. FqueueInit => FqueueInv
  BY DEF FqueueInit, FqueueInv
<1>2. FqueueInv /\ [FqueueNext]_fqueue_vars => FqueueInv'
  <2> SUFFICES ASSUME FqueueInv, [FqueueNext]_fqueue_vars PROVE FqueueInv'
    OBVIOUS
  <2>1. CASE FqueueCreate
    <3>1. fqueue_init \in FqueueQueues /\ fqueue_init.read = 0 /\ fqueue_init.write = 0
      BY FqueueAssumption DEF fqueue_init, FqueueQueues
    <3>2. /\ fqueue' = [in |-> fqueue_init, out |-> fqueue_init, hand |-> <<>>]
          /\ fqueue_io = [read |-> 0, written |-> <<>>] /\ fqueue_odd = FALSE
          /\ UNCHANGED <<fqueue_io, fqueue_odd>>
      BY <2>1 DEF FqueueCreate, FqueueInv
    <3>3. fqueue' \in FqueueStates
      BY <3>1, <3>2 DEF FqueueStates
    <3>4. FqueueCursors(fqueue_init)
      BY <3>1, FqueueAssumption DEF FqueueCursors
    <3>5. FqueueInOrder(fqueue_init, fqueue_init, <<>>, 0, <<>>)
      BY <3>1, <3>4, FqueueAssumption DEF FqueueInOrder, FqueueHolds, FqueueGoesOn, fqueue_used
    <3> QED BY <3>2, <3>3, <3>5 DEF FqueueInv
  <2>2. CASE FqueueDestroy BY <2>2 DEF FqueueDestroy, FqueueInv
  <2>3. CASE UNCHANGED fqueue_vars BY <2>3 DEF fqueue_vars, FqueueInv
  <2>4. CASE FqueueNext /\ ~FqueueCreate /\ ~FqueueDestroy
    <3>1. fqueue # NULL /\ ~fqueue_odd
      BY <2>4 DEF FqueueNext
    <3> QED BY <2>4, <3>1, FqueueStep DEF FqueueInv
  <2> QED BY <2>1, <2>2, <2>3, <2>4
<1>3. FqueueInv => FqueueConserves
  BY FqueueIsInput DEF FqueueInv, FqueueConserves
<1> QED BY <1>1, <1>2, <1>3, PTL DEF FqueueSpec

-----------------------------------------------------------------------------
(* Varena.                                                                 *)

VarenaStates ==
  [top : Nat, bottom : Nat,
   frames : UNION {[S -> [top : Nat, bottom : Nat]] : S \in SUBSET Int}]

(* Blocks that cover what lies between two positions.                      *)
VarenaTiled(blocks, from, to) ==
  /\ blocks \subseteq Nat \X Nat
  /\ \A b \in blocks : from <= b[1] /\ b[1] < b[2] /\ b[2] <= to
  /\ \A b, c \in blocks : VarenaDisjoint(b, c)
  /\ UNION {b[1] .. b[2] - 1 : b \in blocks} = from .. to - 1

(* Where the frames end, and how far each was handed out: the record at the*)
(* end of a frame is that of the frame below it.                           *)
VarenaFrames(a, held, ends, tops) ==
  LET m == Len(held)
  IN /\ held \in Seq(SUBSET (Nat \X Nat))
     /\ ends \in [0..m -> 0..VarenaCapacity] /\ tops \in [0..m -> Nat]
     /\ ends[0] = 0 /\ tops[0] = 0 /\ a.bottom = ends[m] /\ a.top = tops[m]
     /\ \A k \in 1..m : ends[k - 1] <= tops[k] /\ tops[k] + VarenaFrame <= ends[k]
     /\ \A j, k \in 0..m : j <= k => ends[j] <= ends[k]
     /\ DOMAIN a.frames = {ends[k] - VarenaFrame : k \in 1..m}
     /\ \A k \in 1..m :
          a.frames[ends[k] - VarenaFrame] = [top |-> tops[k - 1], bottom |-> ends[k - 1]]
     /\ \A k \in 1..m : VarenaTiled(held[k], ends[k - 1], tops[k])

VarenaInv ==
  /\ varena = NULL => varena_held = <<>> /\ ~varena_wild
  /\ varena # NULL => varena \in VarenaStates
  /\ varena # NULL /\ ~varena_wild =>
       \E ends, tops : VarenaFrames(varena, varena_held, ends, tops)
  /\ varena_wild \in BOOLEAN

(* A sum that does not wrap, and one that does.                            *)
LEMMA VarenaSumIs ==
  ASSUME NEW a \in Nat, NEW b \in Nat
  PROVE  VarenaSum(a, b) \in Nat /\ (a + b < VarenaWord => VarenaSum(a, b) = a + b)
BY VarenaAssumption DEF VarenaSum

LEMMA VarenaStoredIs ==
  ASSUME NEW frames, NEW at, NEW frame
  PROVE  /\ DOMAIN VarenaStored(frames, at, frame) = DOMAIN frames \cup {at}
         /\ VarenaStored(frames, at, frame)[at] = frame
         /\ \A p \in DOMAIN frames \ {at} : VarenaStored(frames, at, frame)[p] = frames[p]
BY DEF VarenaStored

(* A frame is claimed.                                                     *)
LEMMA VarenaClaims ==
  ASSUME NEW a, NEW held, NEW ends, NEW tops, NEW b, NEW n \in Nat \ {0},
         VarenaFrames(a, held, ends, tops),
         a.bottom + n + VarenaFrame <= VarenaCapacity,
         b.top = a.bottom, b.bottom = a.bottom + n + VarenaFrame,
         b.frames = VarenaStored(a.frames, b.bottom - VarenaFrame,
                                 [top |-> a.top, bottom |-> a.bottom])
  PROVE  \E ends2, tops2 : VarenaFrames(b, Append(held, {}), ends2, tops2)
<1> DEFINE m == Len(held)
           held2 == Append(held, {})
           ends2 == [k \in 0..m+1 |-> IF k = m + 1 THEN b.bottom ELSE ends[k]]
           tops2 == [k \in 0..m+1 |-> IF k = m + 1 THEN b.top ELSE tops[k]]
<1>1. /\ m \in Nat /\ held \in Seq(SUBSET (Nat \X Nat)) /\ VarenaFrame \in Nat \ {0}
      /\ VarenaCapacity \in Nat
      /\ ends \in [0..m -> 0..VarenaCapacity] /\ tops \in [0..m -> Nat]
      /\ ends[0] = 0 /\ tops[0] = 0 /\ a.bottom = ends[m] /\ a.top = tops[m]
  BY VarenaAssumption DEF VarenaFrames
<1>2. /\ \A k \in 1..m : ends[k - 1] <= tops[k] /\ tops[k] + VarenaFrame <= ends[k]
      /\ \A j, k \in 0..m : j <= k => ends[j] <= ends[k]
  BY DEF VarenaFrames
<1>3. /\ DOMAIN a.frames = {ends[k] - VarenaFrame : k \in 1..m}
      /\ \A k \in 1..m :
           a.frames[ends[k] - VarenaFrame] = [top |-> tops[k - 1], bottom |-> ends[k - 1]]
  BY DEF VarenaFrames
<1>4. \A k \in 1..m : VarenaTiled(held[k], ends[k - 1], tops[k])
  BY DEF VarenaFrames
<1>5. m \in 0..m /\ ends[m] \in Nat /\ b.bottom \in 0..VarenaCapacity /\ b.top \in Nat
      /\ b.bottom = ends[m] + n + VarenaFrame /\ b.top = ends[m]
  BY <1>1
<1>6. /\ held2 \in Seq(SUBSET (Nat \X Nat)) /\ Len(held2) = m + 1 /\ held2[m + 1] = {}
      /\ \A k \in 1..m : held2[k] = held[k]
  BY <1>1
<1>7. /\ ends2 \in [0..m+1 -> 0..VarenaCapacity] /\ tops2 \in [0..m+1 -> Nat]
      /\ ends2[m + 1] = b.bottom /\ tops2[m + 1] = b.top
      /\ \A k \in 0..m : ends2[k] = ends[k] /\ tops2[k] = tops[k]
  BY <1>1, <1>5
<1>a. (m + 1) - 1 = m /\ ends2[m] = ends[m] /\ tops2[m] = tops[m]
  BY <1>1, <1>5, <1>7
<1> HIDE DEF ends2, tops2, held2, m
<1>8. \A k \in 1..m+1 : k \in 1..m \/ k = m + 1
  BY <1>1
<1>9. \A k \in 1..m : k \in 0..m /\ k - 1 \in 0..m
  BY <1>1
<1>10. \A k \in 1..m+1 : ends2[k - 1] <= tops2[k] /\ tops2[k] + VarenaFrame <= ends2[k]
  <2>1. \A k \in 1..m : ends2[k - 1] <= tops2[k] /\ tops2[k] + VarenaFrame <= ends2[k]
    BY <1>2, <1>7, <1>9
  <2>2. \A e, f \in Nat : e <= e /\ e + f <= e + n + f
    OBVIOUS
  <2>3. ends2[m] <= tops2[m + 1] /\ tops2[m + 1] + VarenaFrame <= ends2[m + 1]
    BY <1>1, <1>5, <1>7, <1>a, <2>2
  <2> QED BY <1>8, <1>a, <2>1, <2>3
<1>11. \A j, k \in 0..m+1 : j <= k => ends2[j] <= ends2[k]
  <2>1. \A j, k \in 0..m : j <= k => ends2[j] <= ends2[k]
    BY <1>2, <1>7
  <2>2. \A j \in 0..m : ends[j] <= ends[m] /\ ends[j] \in Nat
    BY <1>1, <1>2, <1>5
  <2>3. \A j \in 0..m : ends2[j] <= ends2[m + 1]
    <3>1. \A d, e, f \in Nat : d <= e => d <= e + n + f
      OBVIOUS
    <3> QED BY <1>1, <1>5, <1>7, <2>2, <3>1, SMTT(40)
  <2>4. \A k \in 0..m+1 : k \in 0..m \/ k = m + 1
    BY <1>1
  <2>5. \A j \in 0..m : ~(m + 1 <= j)
    BY <1>1
  <2>6. ends2[m + 1] <= ends2[m + 1]
    BY <1>5, <1>7
  <2> QED BY <2>1, <2>3, <2>4, <2>5, <2>6
<1>12. b.bottom - VarenaFrame \notin DOMAIN a.frames
  <2> SUFFICES ASSUME NEW k \in 1..m PROVE b.bottom - VarenaFrame # ends[k] - VarenaFrame
    BY <1>3
  <2>1. ends[k] \in Nat /\ ends[k] <= ends[m] /\ k \in 0..m
    <3>1. k \in 0..m /\ k <= m
      BY <1>1
    <3>2. ends[k] <= ends[m]
      BY <1>2, <1>5, <3>1
    <3>3. \A j \in 0..m : ends[j] \in Nat
      BY <1>1
    <3> QED BY <3>1, <3>2, <3>3
  <2>2. \A d, e, f \in Nat : d <= e => (e + n + f) - f # d - f
    OBVIOUS
  <2> QED BY <1>1, <1>5, <2>1, <2>2, SMTT(40)
<1>13. /\ DOMAIN b.frames = DOMAIN a.frames \cup {b.bottom - VarenaFrame}
       /\ b.frames[b.bottom - VarenaFrame] = [top |-> a.top, bottom |-> a.bottom]
       /\ \A p \in DOMAIN a.frames : b.frames[p] = a.frames[p]
  <2> DEFINE at == b.bottom - VarenaFrame
             frame == [top |-> a.top, bottom |-> a.bottom]
  <2>1. b.frames = VarenaStored(a.frames, at, frame)
    OBVIOUS
  <2>2. at \notin DOMAIN a.frames
    BY <1>12
  <2> HIDE DEF at, frame
  <2>3. /\ DOMAIN b.frames = DOMAIN a.frames \cup {at}
        /\ b.frames[at] = frame
        /\ \A p \in DOMAIN a.frames : b.frames[p] = a.frames[p]
    BY <2>1, <2>2 DEF VarenaStored
  <2> QED BY <2>3 DEF at, frame
<1>14. DOMAIN b.frames = {ends2[k] - VarenaFrame : k \in 1..m+1}
  <2>1. \A k \in 1..m : ends2[k] = ends[k] /\ k \in 1..m+1
    BY <1>1, <1>7, <1>9
  <2>2. ends2[m + 1] - VarenaFrame = b.bottom - VarenaFrame /\ m + 1 \in 1..m+1
    BY <1>1, <1>7, SMTT(40)
  <2>3. {ends2[k] - VarenaFrame : k \in 1..m+1}
          = {ends[k] - VarenaFrame : k \in 1..m} \cup {ends2[m + 1] - VarenaFrame}
    BY <1>8, <2>1, <2>2
  <2> QED BY <1>3, <1>13, <2>2, <2>3
<1>15. \A k \in 1..m+1 :
         b.frames[ends2[k] - VarenaFrame] = [top |-> tops2[k - 1], bottom |-> ends2[k - 1]]
  <2>1. ASSUME NEW k \in 1..m
        PROVE  b.frames[ends2[k] - VarenaFrame] = [top |-> tops2[k - 1], bottom |-> ends2[k - 1]]
    <3>1. ends2[k] = ends[k] /\ tops2[k - 1] = tops[k - 1] /\ ends2[k - 1] = ends[k - 1]
      BY <1>7, <1>9
    <3>2. ends[k] - VarenaFrame \in DOMAIN a.frames
      BY <1>3
    <3> QED BY <1>3, <1>13, <3>1, <3>2
  <2>2. b.frames[ends2[m + 1] - VarenaFrame] = [top |-> tops2[m], bottom |-> ends2[m]]
    BY <1>1, <1>5, <1>7, <1>13
  <2>3. (m + 1) - 1 = m
    BY <1>1
  <2> QED BY <1>8, <2>1, <2>2, <2>3
<1>16. \A k \in 1..m+1 : VarenaTiled(held2[k], ends2[k - 1], tops2[k])
  <2>1. \A k \in 1..m : VarenaTiled(held2[k], ends2[k - 1], tops2[k])
    BY <1>4, <1>6, <1>7, <1>9
  <2>2. VarenaTiled({}, ends[m], ends[m])
    <3>1. ends[m] .. ends[m] - 1 = {}
      BY <1>5
    <3> QED BY <3>1 DEF VarenaTiled
  <2>3. (m + 1) - 1 = m /\ ends2[m] = ends[m]
    BY <1>1, <1>5, <1>7
  <2>4. held2[m + 1] = {} /\ tops2[m + 1] = ends[m]
    BY <1>5, <1>6, <1>7
  <2>5. VarenaTiled(held2[m + 1], ends2[(m + 1) - 1], tops2[m + 1])
    BY <2>2, <2>3, <2>4
  <2> QED BY <1>8, <2>1, <2>5
<1>17. ends2[0] = 0 /\ tops2[0] = 0
  BY <1>1, <1>7
<1>18. VarenaFrames(b, held2, ends2, tops2)
  BY <1>6, <1>7, <1>10, <1>11, <1>14, <1>15, <1>16, <1>17 DEF VarenaFrames
<1> QED BY <1>18 DEF held2

(* The top frame is given back, and the one below goes on where it was.    *)
LEMMA VarenaDisclaims ==
  ASSUME NEW a, NEW held, NEW ends, NEW tops, NEW b,
         VarenaFrames(a, held, ends, tops), VarenaHasFrame(a),
         b.top = a.frames[varena_frame_top(a)].top,
         b.bottom = a.frames[varena_frame_top(a)].bottom,
         b.frames = Restrict(a.frames, DOMAIN a.frames \ {varena_frame_top(a)})
  PROVE  \E ends2, tops2 : VarenaFrames(b, Front(held), ends2, tops2)
<1> DEFINE m == Len(held)
           held2 == Front(held)
           ends2 == [k \in 0..m-1 |-> ends[k]]
           tops2 == [k \in 0..m-1 |-> tops[k]]
<1>1. /\ m \in Nat /\ held \in Seq(SUBSET (Nat \X Nat)) /\ VarenaFrame \in Nat \ {0}
      /\ VarenaCapacity \in Nat
      /\ ends \in [0..m -> 0..VarenaCapacity] /\ tops \in [0..m -> Nat]
      /\ ends[0] = 0 /\ tops[0] = 0 /\ a.bottom = ends[m] /\ a.top = tops[m]
  BY VarenaAssumption DEF VarenaFrames
<1>2. /\ \A k \in 1..m : ends[k - 1] <= tops[k] /\ tops[k] + VarenaFrame <= ends[k]
      /\ \A j, k \in 0..m : j <= k => ends[j] <= ends[k]
  BY DEF VarenaFrames
<1>3. /\ DOMAIN a.frames = {ends[k] - VarenaFrame : k \in 1..m}
      /\ \A k \in 1..m :
           a.frames[ends[k] - VarenaFrame] = [top |-> tops[k - 1], bottom |-> ends[k - 1]]
  BY DEF VarenaFrames
<1>4. \A k \in 1..m : VarenaTiled(held[k], ends[k - 1], tops[k])
  BY DEF VarenaFrames
<1>5. m # 0
  BY <1>1 DEF VarenaHasFrame
<1>6. m \in 1..m /\ m - 1 \in Nat /\ m - 1 \in 0..m /\ varena_frame_top(a) = ends[m] - VarenaFrame
  BY <1>1, <1>5 DEF varena_frame_top
<1>7. b.top = tops[m - 1] /\ b.bottom = ends[m - 1]
  <2>1. a.frames[ends[m] - VarenaFrame] = [top |-> tops[m - 1], bottom |-> ends[m - 1]]
    BY <1>3, <1>6
  <2> QED BY <1>6, <2>1
<1>8. /\ held2 \in Seq(SUBSET (Nat \X Nat)) /\ Len(held2) = m - 1
      /\ \A k \in 1..m-1 : held2[k] = held[k]
  <2>1. \A i \in 1..m-1 : held[i] \in SUBSET (Nat \X Nat)
    BY <1>1, <1>5
  <2>2. PICK n \in Nat : n = m - 1
    BY <1>6
  <2>3. /\ SubSeq(held, 1, n) \in Seq(SUBSET (Nat \X Nat))
        /\ Len(SubSeq(held, 1, n)) = IF 1 <= n THEN n - 1 + 1 ELSE 0
        /\ \A i \in 1..n - 1 + 1 : SubSeq(held, 1, n)[i] = held[1 + i - 1]
    BY <2>1, <2>2, SubSeqProperties
  <2>4. held2 = SubSeq(held, 1, n)
    BY <2>2 DEF Front
  <2> HIDE DEF held2
  <2> QED BY <1>1, <2>2, <2>3, <2>4
<1>9. /\ ends2 \in [0..m-1 -> 0..VarenaCapacity] /\ tops2 \in [0..m-1 -> Nat]
      /\ \A k \in 0..m-1 : ends2[k] = ends[k] /\ tops2[k] = tops[k]
  BY <1>1, <1>6
<1> HIDE DEF ends2, tops2, held2
<1>10. \A k \in 1..m-1 : k \in 1..m /\ k \in 0..m-1 /\ k - 1 \in 0..m-1
  BY <1>1
<1>11. \A k \in 0..m-1 : k \in 0..m
  BY <1>1
<1>12. \A k \in 1..m-1 : ends2[k - 1] <= tops2[k] /\ tops2[k] + VarenaFrame <= ends2[k]
  BY <1>2, <1>9, <1>10
<1>13. \A j, k \in 0..m-1 : j <= k => ends2[j] <= ends2[k]
  BY <1>2, <1>9, <1>11
<1>14. \A k \in 1..m-1 : ends[k] - VarenaFrame # ends[m] - VarenaFrame
  <2> TAKE k \in 1..m-1
  <2>1. k \in 0..m /\ m - 1 \in 0..m /\ k <= m - 1 /\ m \in 0..m
    BY <1>1, <1>5
  <2>2. ends[k] <= ends[m - 1] /\ ends[m - 1] <= tops[m] /\ tops[m] + VarenaFrame <= ends[m]
    BY <1>2, <1>6, <2>1
  <2>3. \A i \in 0..m : ends[i] \in Nat /\ tops[i] \in Nat
    BY <1>1
  <2>4. ends[k] \in Nat /\ ends[m - 1] \in Nat /\ ends[m] \in Nat /\ tops[m] \in Nat
    BY <2>1, <2>3
  <2>5. \A d, e, f, t \in Nat : d <= e /\ e <= t /\ t + VarenaFrame <= f
          => d - VarenaFrame # f - VarenaFrame
    BY <1>1
  <2> QED BY <2>2, <2>4, <2>5
<1>15. \A k \in 1..m : k \in 1..m-1 \/ k = m
  BY <1>1
<1>16. DOMAIN b.frames = {ends2[k] - VarenaFrame : k \in 1..m-1}
  <2>1. DOMAIN b.frames = DOMAIN a.frames \ {ends[m] - VarenaFrame}
    BY <1>6 DEF Restrict
  <2>2. \A k \in 1..m-1 : ends2[k] = ends[k]
    BY <1>9, <1>10
  <2> QED BY <1>3, <1>10, <1>14, <1>15, <2>1, <2>2, ZenonT(60)
<1>17. \A k \in 1..m-1 :
         b.frames[ends2[k] - VarenaFrame] = [top |-> tops2[k - 1], bottom |-> ends2[k - 1]]
  <2> TAKE k \in 1..m-1
  <2>1. ends2[k] = ends[k] /\ tops2[k - 1] = tops[k - 1] /\ ends2[k - 1] = ends[k - 1] /\ k \in 1..m
    BY <1>9, <1>10
  <2>2. ends[k] - VarenaFrame \in DOMAIN a.frames \ {varena_frame_top(a)}
    BY <1>3, <1>6, <1>14, <2>1
  <2>3. b.frames[ends[k] - VarenaFrame] = a.frames[ends[k] - VarenaFrame]
    BY <2>2 DEF Restrict
  <2> QED BY <1>3, <2>1, <2>3
<1>18. \A k \in 1..m-1 : VarenaTiled(held2[k], ends2[k - 1], tops2[k])
  BY <1>4, <1>8, <1>9, <1>10
<1>19. /\ ends2[0] = 0 /\ tops2[0] = 0
       /\ b.bottom = ends2[m - 1] /\ b.top = tops2[m - 1]
  BY <1>1, <1>6, <1>7, <1>9
<1>20. VarenaFrames(b, held2, ends2, tops2)
  BY <1>8, <1>9, <1>12, <1>13, <1>16, <1>17, <1>18, <1>19 DEF VarenaFrames
<1> QED BY <1>20 DEF held2

(* A block is handed out from the top frame.                               *)
LEMMA VarenaAllocs ==
  ASSUME NEW a, NEW held, NEW ends, NEW tops, NEW b, NEW n \in Nat \ {0},
         VarenaFrames(a, held, ends, tops), VarenaHasFrame(a),
         a.top + n + VarenaFrame <= a.bottom,
         b.top = a.top + n, b.bottom = a.bottom, b.frames = a.frames
  PROVE  \E ends2, tops2 :
           VarenaFrames(b, [held EXCEPT ![Len(held)] = @ \cup {<<a.top, b.top>>}], ends2, tops2)
<1> DEFINE m == Len(held)
           block == <<a.top, b.top>>
           held2 == [held EXCEPT ![m] = @ \cup {block}]
           tops2 == [tops EXCEPT ![m] = b.top]
<1>1. /\ m \in Nat /\ held \in Seq(SUBSET (Nat \X Nat)) /\ VarenaFrame \in Nat \ {0}
      /\ VarenaCapacity \in Nat
      /\ ends \in [0..m -> 0..VarenaCapacity] /\ tops \in [0..m -> Nat]
      /\ ends[0] = 0 /\ tops[0] = 0 /\ a.bottom = ends[m] /\ a.top = tops[m]
  BY VarenaAssumption DEF VarenaFrames
<1>2. /\ \A k \in 1..m : ends[k - 1] <= tops[k] /\ tops[k] + VarenaFrame <= ends[k]
      /\ \A j, k \in 0..m : j <= k => ends[j] <= ends[k]
  BY DEF VarenaFrames
<1>3. /\ DOMAIN a.frames = {ends[k] - VarenaFrame : k \in 1..m}
      /\ \A k \in 1..m :
           a.frames[ends[k] - VarenaFrame] = [top |-> tops[k - 1], bottom |-> ends[k - 1]]
  BY DEF VarenaFrames
<1>4. \A k \in 1..m : VarenaTiled(held[k], ends[k - 1], tops[k])
  BY DEF VarenaFrames
<1>5. m # 0
  BY <1>1 DEF VarenaHasFrame
<1>6. /\ m \in 1..m /\ m - 1 \in 0..m /\ m \in 0..m
      /\ tops[m] \in Nat /\ ends[m] \in Nat /\ ends[m - 1] \in Nat
      /\ b.top = tops[m] + n /\ b.top \in Nat /\ b.top + VarenaFrame <= ends[m]
      /\ ends[m - 1] <= tops[m] /\ block = <<tops[m], b.top>> /\ block \in Nat \X Nat
  <2>1. m \in 1..m /\ m - 1 \in 0..m /\ m \in 0..m
    BY <1>1, <1>5
  <2>2. \A i \in 0..m : ends[i] \in Nat /\ tops[i] \in Nat
    BY <1>1
  <2>3. tops[m] \in Nat /\ ends[m] \in Nat /\ ends[m - 1] \in Nat /\ b.top = tops[m] + n
    BY <1>1, <2>1, <2>2
  <2>4. b.top \in Nat /\ b.top + VarenaFrame <= ends[m]
    BY <1>1, <2>3
  <2>5. ends[m - 1] <= tops[m]
    BY <1>2, <2>1
  <2> QED BY <1>1, <2>1, <2>3, <2>4, <2>5
<1>7. /\ tops2 \in [0..m -> Nat] /\ tops2[m] = b.top
      /\ \A k \in 0..m-1 : tops2[k] = tops[k]
  BY <1>1, <1>6
<1>8. /\ held2 \in Seq(SUBSET (Nat \X Nat)) /\ Len(held2) = m
      /\ held2[m] = held[m] \cup {block}
      /\ \A k \in 1..m-1 : held2[k] = held[k]
  <2>1. held \in [1..m -> SUBSET (Nat \X Nat)]
    BY <1>1
  <2>2. held2 \in [1..m -> SUBSET (Nat \X Nat)]
    BY <1>6, <2>1
  <2>3. held2[m] = held[m] \cup {block} /\ \A k \in 1..m-1 : held2[k] = held[k]
    <3> HIDE DEF m, block
    <3>1. DOMAIN held = 1..m /\ DOMAIN held2 = 1..m
      BY <2>1, <2>2
    <3>2. \A k \in 1..m : held2[k] = IF k = m THEN held[m] \cup {block} ELSE held[k]
      BY <3>1
    <3>3. \A k \in 1..m-1 : k \in 1..m /\ k # m
      BY <1>1
    <3> QED BY <1>6, <3>2, <3>3
  <2> HIDE DEF held2, block
  <2>4. held2 \in Seq(SUBSET (Nat \X Nat)) /\ Len(held2) = m
    <3> HIDE DEF m
    <3>1. DOMAIN held2 = 1..m /\ \A i \in 1..m : held2[i] \in SUBSET (Nat \X Nat)
      BY <2>2
    <3> QED BY <1>1, <2>2, <3>1, LenProperties
  <2> QED BY <2>3, <2>4
<1> HIDE DEF tops2, held2, block, m
<1>9. \A k \in 1..m : k \in 1..m-1 \/ k = m
  BY <1>1
<1>10. \A k \in 1..m-1 : k \in 0..m-1 /\ k - 1 \in 0..m-1 /\ k \in 1..m
  BY <1>1
<1>11. \A k \in 1..m : ends[k - 1] <= tops2[k] /\ tops2[k] + VarenaFrame <= ends[k]
  <2>1. \A k \in 1..m-1 : ends[k - 1] <= tops2[k] /\ tops2[k] + VarenaFrame <= ends[k]
    BY <1>2, <1>7, <1>10
  <2>2. ends[m - 1] <= tops2[m] /\ tops2[m] + VarenaFrame <= ends[m]
    BY <1>6, <1>7
  <2> QED BY <1>9, <2>1, <2>2
<1>12. \A k \in 1..m : tops2[k - 1] = tops[k - 1]
  <2>1. \A k \in 1..m : k - 1 \in 0..m-1
    BY <1>1
  <2> QED BY <1>7, <2>1
<1>13. VarenaTiled(held[m] \cup {block}, ends[m - 1], b.top)
  <2> DEFINE blocks == held[m]
             from == ends[m - 1]
             top == tops[m]
  <2>1. VarenaTiled(blocks, from, top)
    BY <1>4, <1>6
  <2>2. from \in Nat /\ top \in Nat /\ from <= top /\ b.top = top + n /\ b.top \in Nat
        /\ block = <<top, b.top>> /\ block \in Nat \X Nat
    BY <1>6
  <2> HIDE DEF blocks, from, top
  <2>3. block[1] = top /\ block[2] = b.top
    BY <2>2
  <2>4. /\ blocks \subseteq Nat \X Nat
        /\ \A c \in blocks : from <= c[1] /\ c[1] < c[2] /\ c[2] <= top
        /\ \A c, d \in blocks : VarenaDisjoint(c, d)
        /\ UNION {c[1] .. c[2] - 1 : c \in blocks} = from .. top - 1
    BY <2>1 DEF VarenaTiled
  <2>5. \A c \in blocks \cup {block} : from <= c[1] /\ c[1] < c[2] /\ c[2] <= b.top
    <3>1. \A c \in blocks : c[2] \in Nat
      BY <2>4
    <3>2. \A c \in blocks : c[2] <= b.top
      BY <2>2, <2>4, <3>1
    <3>3. from <= block[1] /\ block[1] < block[2] /\ block[2] <= b.top
      BY <2>2, <2>3
    <3> QED BY <2>4, <3>2, <3>3
  <2>6. \A c, d \in blocks \cup {block} : VarenaDisjoint(c, d)
    <3>1. \A c \in blocks : c[2] <= block[1]
      BY <2>3, <2>4
    <3> QED BY <2>4, <3>1 DEF VarenaDisjoint
  <2>7. UNION {c[1] .. c[2] - 1 : c \in blocks \cup {block}} = from .. b.top - 1
    <3>1. UNION {c[1] .. c[2] - 1 : c \in blocks \cup {block}}
            = (UNION {c[1] .. c[2] - 1 : c \in blocks}) \cup (block[1] .. block[2] - 1)
      OBVIOUS
    <3>2. (from .. top - 1) \cup (top .. b.top - 1) = from .. b.top - 1
      BY <2>2
    <3> QED BY <2>3, <2>4, <3>1, <3>2
  <2>8. blocks \cup {block} \subseteq Nat \X Nat
    BY <2>2, <2>4
  <2>9. VarenaTiled(blocks \cup {block}, from, b.top)
    BY <2>5, <2>6, <2>7, <2>8 DEF VarenaTiled
  <2> QED BY <2>9 DEF blocks, from
<1>14. \A k \in 1..m : VarenaTiled(held2[k], ends[k - 1], tops2[k])
  <2>1. \A k \in 1..m-1 : VarenaTiled(held2[k], ends[k - 1], tops2[k])
    BY <1>4, <1>7, <1>8, <1>10
  <2>2. VarenaTiled(held2[m], ends[m - 1], tops2[m])
    BY <1>7, <1>8, <1>13
  <2> QED BY <1>9, <2>1, <2>2
<1>15. tops2[0] = 0 /\ b.bottom = ends[m] /\ b.top = tops2[m]
  BY <1>1, <1>5, <1>7
<1>16. VarenaFrames(b, held2, ends, tops2)
  BY <1>1, <1>2, <1>3, <1>7, <1>8, <1>11, <1>12, <1>14, <1>15, ZenonT(40) DEF VarenaFrames
<1> QED BY <1>16 DEF held2, block, m

(* What a sum over or under the width of a size_t comes to.                *)
LEMMA VarenaSumWraps ==
  ASSUME NEW r \in Nat, r < VarenaWord, NEW a \in Nat, NEW b \in Nat, a + b = r + VarenaWord
  PROVE  VarenaSum(a, b) = r
<1>1. \A w \in Nat, s \in Nat : s < w => (s + w) % w = s
  OBVIOUS
<1> QED BY <1>1, VarenaAssumption DEF VarenaSum

(* The frames stay what they are when one is recorded or one is taken out. *)
LEMMA VarenaTyped ==
  ASSUME NEW a \in VarenaStates, NEW top \in Nat, NEW bottom \in Nat
  PROVE  /\ \A at \in Int, t \in Nat, b \in Nat :
              [top |-> top, bottom |-> bottom,
               frames |-> VarenaStored(a.frames, at, [top |-> t, bottom |-> b])] \in VarenaStates
         /\ \A S \in SUBSET DOMAIN a.frames :
              [top |-> top, bottom |-> bottom, frames |-> Restrict(a.frames, S)] \in VarenaStates
         /\ [a EXCEPT !.top = top] \in VarenaStates
<1> DEFINE Frame == [top : Nat, bottom : Nat]
<1>1. PICK D \in SUBSET Int : a.frames \in [D -> Frame]
  BY DEF VarenaStates
<1>2. ASSUME NEW at \in Int, NEW t \in Nat, NEW b \in Nat
      PROVE  [top |-> top, bottom |-> bottom,
              frames |-> VarenaStored(a.frames, at, [top |-> t, bottom |-> b])] \in VarenaStates
  <2> DEFINE frame == [top |-> t, bottom |-> b]
  <2>1. frame \in Frame
    OBVIOUS
  <2> HIDE DEF frame, Frame
  <2>2. VarenaStored(a.frames, at, frame) \in [D \cup {at} -> Frame]
    BY <1>1, <2>1 DEF VarenaStored
  <2>3. D \cup {at} \in SUBSET Int
    BY <1>1
  <2> QED BY <2>2, <2>3 DEF VarenaStates, Frame, frame
<1>3. ASSUME NEW S \in SUBSET DOMAIN a.frames
      PROVE  [top |-> top, bottom |-> bottom, frames |-> Restrict(a.frames, S)] \in VarenaStates
  <2> HIDE DEF Frame
  <2>1. Restrict(a.frames, S) \in [S -> Frame] /\ S \in SUBSET Int
    BY <1>1 DEF Restrict
  <2> QED BY <2>1 DEF VarenaStates, Frame
<1>4. [a EXCEPT !.top = top] \in VarenaStates
  BY DEF VarenaStates
<1> QED BY <1>2, <1>3, <1>4

(* What holds of the arena holds after each call on it.                    *)
LEMMA VarenaStep ==
  ASSUME NULL \notin VarenaStates, VarenaInv, varena # NULL, ~varena_wild,
         VarenaDisclaim \/ \E n \in VarenaSizes : VarenaClaim(n) \/ VarenaAlloc(n)
  PROVE  VarenaInv'
<1>1. varena \in VarenaStates
  BY DEF VarenaInv
<1>2. PICK ends, tops : VarenaFrames(varena, varena_held, ends, tops)
  BY DEF VarenaInv
<1> DEFINE m == Len(varena_held)
           bottom == varena.bottom
           top == varena.top
<1>3. /\ VarenaFrame \in Nat \ {0} /\ VarenaCapacity \in Nat
      /\ VarenaWord \in Nat /\ VarenaWord > 2 * VarenaCapacity /\ VarenaWord > 0
      /\ VarenaSizes \subseteq (1..VarenaWord - 1)
  BY VarenaAssumption
<1>4. /\ m \in Nat /\ bottom = ends[m] /\ top = tops[m] /\ bottom \in 0..VarenaCapacity
      /\ top \in Nat /\ top <= bottom
  <2>1. /\ m \in Nat /\ bottom = ends[m] /\ top = tops[m] /\ ends[0] = 0 /\ tops[0] = 0
        /\ ends \in [0..m -> 0..VarenaCapacity] /\ tops \in [0..m -> Nat]
        /\ \A k \in 1..m : tops[k] + VarenaFrame <= ends[k]
    BY <1>2 DEF VarenaFrames
  <2>2. m \in 0..m /\ (m = 0 \/ m \in 1..m)
    BY <2>1
  <2> HIDE DEF m, bottom, top
  <2>3. bottom \in 0..VarenaCapacity /\ top \in Nat
    BY <2>1, <2>2
  <2>4. \A t, e \in Nat : t + VarenaFrame <= e => t <= e
    BY <1>3
  <2> QED BY <1>3, <2>1, <2>2, <2>3, <2>4
<1>5. ASSUME VarenaDisclaim PROVE VarenaInv'
  <2>1. /\ VarenaHasFrame(varena) /\ ~varena_wild'
        /\ varena_held' = Front(varena_held)
        /\ varena' = [top |-> varena.frames[varena_frame_top(varena)].top,
                      bottom |-> varena.frames[varena_frame_top(varena)].bottom,
                      frames |-> Restrict(varena.frames,
                                          DOMAIN varena.frames \ {varena_frame_top(varena)})]
    BY <1>5 DEF VarenaDisclaim
  <2>2. \E ends2, tops2 : VarenaFrames(varena', varena_held', ends2, tops2)
    BY <1>2, <2>1, VarenaDisclaims
  <2>3. varena'.top \in Nat /\ varena'.bottom \in Nat
    <3>1. PICK ends2, tops2 : VarenaFrames(varena', varena_held', ends2, tops2)
      BY <2>2
    <3> QED BY <3>1, <1>3 DEF VarenaFrames
  <2>4. varena' \in VarenaStates
    <3> DEFINE t == varena.frames[varena_frame_top(varena)].top
               b == varena.frames[varena_frame_top(varena)].bottom
               S == DOMAIN varena.frames \ {varena_frame_top(varena)}
    <3>1. t \in Nat /\ b \in Nat
      BY <2>1, <2>3
    <3>2. S \in SUBSET DOMAIN varena.frames
      OBVIOUS
    <3>3. varena' = [top |-> t, bottom |-> b, frames |-> Restrict(varena.frames, S)]
      BY <2>1
    <3> HIDE DEF t, b, S
    <3> QED BY <1>1, <3>1, <3>2, <3>3, VarenaTyped
  <2>5. varena' # NULL /\ varena_wild' \in BOOLEAN
    <3>1. varena_wild' = varena_wild /\ varena_wild \in BOOLEAN
      BY <1>5 DEF VarenaDisclaim, VarenaInv
    <3> QED BY <2>4, <3>1, Zenon
  <2> QED BY <2>1, <2>2, <2>4, <2>5 DEF VarenaInv
<1>6. ASSUME NEW n \in VarenaSizes, VarenaClaim(n) PROVE VarenaInv'
  <2> DEFINE bytes == VarenaSum(n, VarenaFrame)
             end == VarenaSum(bottom, bytes)
  <2>1. /\ end <= VarenaCapacity
        /\ varena' = [top |-> bottom, bottom |-> end,
                      frames |-> VarenaStored(varena.frames, end - VarenaFrame,
                                              [top |-> top, bottom |-> bottom])]
        /\ varena_held' = Append(varena_held, {})
        /\ varena_wild' = (bottom + n + VarenaFrame >= VarenaWord)
    BY <1>6 DEF VarenaClaim
  <2> HIDE DEF bottom, top
  <2>2. n \in Nat \ {0} /\ bottom \in Nat
    BY <1>3, <1>4
  <2>3. bytes \in Nat
    BY <1>3, <2>2, VarenaSumIs
  <2>4. end \in Nat
    BY <2>2, <2>3, VarenaSumIs
  <2>5. varena' \in VarenaStates
    <3> HIDE DEF end, bytes
    <3>1. end - VarenaFrame \in Int
      BY <1>3, <2>4
    <3> QED BY <1>1, <1>4, <2>1, <2>2, <2>4, <3>1, VarenaTyped
  <2>6. ASSUME ~varena_wild'
        PROVE  \E ends2, tops2 : VarenaFrames(varena', varena_held', ends2, tops2)
    <3>1. bottom + n + VarenaFrame < VarenaWord
      <4>1. ~(bottom + n + VarenaFrame >= VarenaWord)
        BY <2>1, <2>6, Zenon
      <4> QED BY <1>3, <2>2, <4>1
    <3>2. n + VarenaFrame < VarenaWord
      BY <1>3, <2>2, <3>1
    <3>3. bytes = n + VarenaFrame
      BY <1>3, <2>2, <3>2, VarenaSumIs
    <3>4. end = bottom + bytes
      BY <1>3, <2>2, <2>3, <3>1, <3>3, VarenaSumIs
    <3> HIDE DEF end, bytes
    <3>5. end = bottom + n + VarenaFrame
      BY <1>3, <2>2, <3>3, <3>4
    <3>6. /\ varena'.top = varena.bottom
          /\ varena'.bottom = varena.bottom + n + VarenaFrame
          /\ varena'.frames = VarenaStored(varena.frames, varena'.bottom - VarenaFrame,
                                           [top |-> varena.top, bottom |-> varena.bottom])
      BY <2>1, <3>5 DEF bottom, top
    <3>7. varena.bottom + n + VarenaFrame <= VarenaCapacity
      BY <2>1, <3>5 DEF bottom
    <3> QED BY <1>2, <2>1, <2>2, <3>6, <3>7, VarenaClaims
  <2>7. varena_wild' \in BOOLEAN
    BY <2>1
  <2>8. varena' # NULL
    BY <2>5
  <2> QED BY <2>5, <2>6, <2>7, <2>8 DEF VarenaInv
<1>7. ASSUME NEW n \in VarenaSizes, VarenaAlloc(n) PROVE VarenaInv'
  <2> DEFINE t == VarenaSum(top, n)
             room == VarenaSum(bottom, VarenaWord - VarenaFrame)
  <2>1. /\ t <= room
        /\ varena' = [varena EXCEPT !.top = t]
        /\ varena_wild' = (~VarenaHasFrame(varena) \/ t < top)
        /\ varena_held' =
             IF VarenaHasFrame(varena)
             THEN [varena_held EXCEPT ![Len(varena_held)] = @ \cup {<<top, t>>}]
             ELSE varena_held
    BY <1>7 DEF VarenaAlloc
  <2> HIDE DEF bottom, top
  <2>2. n \in Nat \ {0} /\ n < VarenaWord /\ bottom \in Nat
    BY <1>3, <1>4
  <2>3. t \in Nat
    BY <1>4, <2>2, VarenaSumIs
  <2>4. varena' \in VarenaStates
    <3> HIDE DEF t
    <3> QED BY <1>1, <1>4, <2>1, <2>2, <2>3, VarenaTyped
  <2>5. ASSUME ~varena_wild'
        PROVE  \E ends2, tops2 : VarenaFrames(varena', varena_held', ends2, tops2)
    <3>1. VarenaHasFrame(varena) /\ VarenaFrame <= bottom /\ t >= top
      <4>1. VarenaHasFrame(varena) /\ ~(t < top)
        BY <2>1, <2>5, Zenon
      <4>2. VarenaFrame <= bottom
        BY <4>1 DEF VarenaHasFrame, bottom
      <4>3. t >= top
        <5> HIDE DEF t
        <5> QED BY <1>3, <1>4, <2>3, <4>1
      <4> QED BY <4>1, <4>2, <4>3
    <3>2. t = top + n
      <4>1. CASE top + n < VarenaWord
        BY <1>4, <2>2, <4>1, VarenaSumIs
      <4>2. CASE top + n >= VarenaWord
        <5> DEFINE r == top + n - VarenaWord
        <5>1. r \in Nat /\ r < VarenaWord /\ top + n = r + VarenaWord /\ r < top
          BY <1>3, <1>4, <2>2, <4>2, SMTT(40)
        <5> HIDE DEF r
        <5>2. t = r
          BY <1>4, <2>2, <5>1, VarenaSumWraps
        <5> HIDE DEF t
        <5> QED BY <1>4, <2>3, <3>1, <5>1, <5>2
      <4> QED BY <1>3, <1>4, <2>2, <4>1, <4>2
    <3>3. room = bottom - VarenaFrame
      <4> DEFINE r == bottom - VarenaFrame
                 d == VarenaWord - VarenaFrame
      <4>1. r \in Nat /\ r < VarenaWord /\ d \in Nat /\ bottom + d = r + VarenaWord
        BY <1>3, <1>4, <2>2, <3>1
      <4>2. room = VarenaSum(bottom, d)
        OBVIOUS
      <4> HIDE DEF r, d, room
      <4>3. room = r
        BY <2>2, <4>1, <4>2, VarenaSumWraps
      <4> QED BY <4>3 DEF r
    <3> HIDE DEF t, room
    <3>4. top + n + VarenaFrame <= bottom
      BY <1>3, <1>4, <2>1, <2>2, <2>3, <3>2, <3>3, SMTT(40)
    <3>5. /\ varena'.top = varena.top + n /\ varena'.bottom = varena.bottom
          /\ varena'.frames = varena.frames
      BY <1>1, <2>1, <3>2 DEF VarenaStates, top
    <3>6. varena_held' = [varena_held EXCEPT ![Len(varena_held)]
                                               = @ \cup {<<varena.top, varena'.top>>}]
      BY <2>1, <3>1, <3>2, <3>5 DEF top
    <3>7. varena.top + n + VarenaFrame <= varena.bottom
      BY <3>4 DEF top, bottom
    <3> QED BY <1>2, <2>2, <3>1, <3>5, <3>6, <3>7, VarenaAllocs
  <2>6. varena_wild' \in BOOLEAN
    BY <2>1
  <2>7. varena' # NULL
    BY <2>4
  <2> QED BY <2>4, <2>5, <2>6, <2>7 DEF VarenaInv
<1> QED BY <1>5, <1>6, <1>7


(* A frame's blocks lie between the end of the one below and its record.   *)
LEMMA VarenaIsApart ==
  ASSUME NEW ends, NEW tops, VarenaFrames(varena, varena_held, ends, tops)
  PROVE  \A b, c \in VarenaBlocks \cup VarenaRecords :
           VarenaDisjoint(b, c) /\ 0 <= b[1] /\ b[2] <= VarenaCapacity
<1> DEFINE m == Len(varena_held)
           held == varena_held
           Record(k) == <<ends[k] - VarenaFrame, ends[k]>>
           Lie(b, c) == b[2] <= c[1] \/ c[2] <= b[1]
<1>1. /\ m \in Nat /\ VarenaFrame \in Nat \ {0} /\ VarenaCapacity \in Nat
      /\ held \in Seq(SUBSET (Nat \X Nat))
      /\ ends \in [0..m -> 0..VarenaCapacity] /\ tops \in [0..m -> Nat]
      /\ \A k \in 1..m : ends[k - 1] <= tops[k] /\ tops[k] + VarenaFrame <= ends[k]
      /\ \A j, k \in 0..m : j <= k => ends[j] <= ends[k]
      /\ DOMAIN varena.frames = {ends[k] - VarenaFrame : k \in 1..m}
      /\ \A k \in 1..m : VarenaTiled(held[k], ends[k - 1], tops[k])
  BY VarenaAssumption DEF VarenaFrames
<1>2. \A b \in VarenaBlocks : \E k \in 1..m : b \in held[k]
  BY <1>1 DEF VarenaBlocks, ToSet
<1>3. \A b \in VarenaRecords : \E k \in 1..m : b = Record(k)
  <2> TAKE b \in VarenaRecords
  <2>1. PICK p \in DOMAIN varena.frames : b = <<p, p + VarenaFrame>>
    BY DEF VarenaRecords
  <2>2. PICK k \in 1..m : p = ends[k] - VarenaFrame
    BY <1>1, <2>1
  <2>3. k \in 0..m /\ ends[k] \in Nat
    <3>0. ends \in [0..m -> 0..VarenaCapacity] /\ VarenaCapacity \in Nat
      BY <1>1, Zenon
    <3>1. \A j \in 0..m : ends[j] \in Nat
      BY <3>0
    <3>2. \A j \in 1..m : j \in 0..m
      BY <1>1
    <3> QED BY <3>1, <3>2
  <2>4. \A e \in Nat : (e - VarenaFrame) + VarenaFrame = e
    BY <1>1
  <2> QED BY <2>1, <2>2, <2>3, <2>4
<1> HIDE DEF m, held
<1>4. \A k \in 1..m : k \in 0..m /\ k - 1 \in 0..m
  BY <1>1
<1>5. \A k \in 1..m : ends[k - 1] \in Nat /\ ends[k] \in Nat /\ tops[k] \in Nat
                    /\ ends[k] <= VarenaCapacity
  BY <1>1, <1>4
(* A block, or the record, of frame k.                                     *)
<1>6. ASSUME NEW k \in 1..m, NEW b \in held[k] \cup {Record(k)}
      PROVE  /\ b[1] \in Nat /\ b[2] \in Nat
             /\ ends[k - 1] <= b[1] /\ b[2] <= ends[k]
  <2>1. CASE b \in held[k]
    <3>1. held[k] \subseteq Nat \X Nat
          /\ \A c \in held[k] : ends[k - 1] <= c[1] /\ c[1] < c[2] /\ c[2] <= tops[k]
      BY <1>1 DEF VarenaTiled
    <3>2. b[1] \in Nat /\ b[2] \in Nat /\ ends[k - 1] <= b[1] /\ b[2] <= tops[k]
      BY <2>1, <3>1
    <3>3. \A x, t, e \in Nat : x <= t /\ t + VarenaFrame <= e => x <= e
      BY <1>1
    <3> QED BY <1>1, <1>5, <3>2, <3>3
  <2>2. CASE b = Record(k)
    <3>1. b[1] = ends[k] - VarenaFrame /\ b[2] = ends[k]
      BY <2>2
    <3>2. \A d, t, e \in Nat : d <= t /\ t + VarenaFrame <= e
            => e - VarenaFrame \in Nat /\ d <= e - VarenaFrame /\ e <= e
      BY <1>1
    <3> QED BY <1>1, <1>5, <3>1, <3>2, ZenonT(40)
  <2> QED BY <2>1, <2>2
<1>7. ASSUME NEW k \in 1..m, NEW b \in held[k] \cup {Record(k)}, NEW c \in held[k] \cup {Record(k)}
      PROVE  VarenaDisjoint(b, c)
  <2>1. /\ held[k] \subseteq Nat \X Nat
        /\ \A d \in held[k] : d[2] <= tops[k]
        /\ \A d, e \in held[k] : VarenaDisjoint(d, e)
    BY <1>1 DEF VarenaTiled
  <2>2. ASSUME NEW d \in held[k] PROVE d[2] <= Record(k)[1]
    <3>1. d[2] \in Nat /\ d[2] <= tops[k]
      BY <2>1
    <3>2. \A x, t, e \in Nat : x <= t /\ t + VarenaFrame <= e => x <= e - VarenaFrame
      BY <1>1
    <3> QED BY <1>1, <1>5, <3>1, <3>2
  <2> HIDE DEF Record
  <2> QED BY <2>1, <2>2 DEF VarenaDisjoint
<1>8. ASSUME NEW j \in 1..m, NEW k \in 1..m, j < k,
             NEW b \in held[j] \cup {Record(j)}, NEW c \in held[k] \cup {Record(k)}
      PROVE  b[2] <= c[1]
  <2>1. ends[j] <= ends[k - 1]
    <3>1. j <= k - 1
      BY <1>8
    <3> QED BY <1>1, <1>4, <3>1
  <2>2. b[2] \in Nat /\ b[2] <= ends[j] /\ c[1] \in Nat /\ ends[k - 1] <= c[1]
    BY <1>6
  <2>3. \A x, d, e, y \in Nat : x <= d /\ d <= e /\ e <= y => x <= y
    OBVIOUS
  <2> QED BY <1>5, <2>1, <2>2, <2>3
<1>9. ASSUME NEW b \in VarenaBlocks \cup VarenaRecords
      PROVE  \E k \in 1..m : b \in held[k] \cup {Record(k)}
  BY <1>2, <1>3
<1>10. ASSUME NEW b \in VarenaBlocks \cup VarenaRecords, NEW c \in VarenaBlocks \cup VarenaRecords
       PROVE  VarenaDisjoint(b, c) /\ 0 <= b[1] /\ b[2] <= VarenaCapacity
  <2>1. PICK j \in 1..m : b \in held[j] \cup {Record(j)}
    BY <1>9
  <2>2. PICK k \in 1..m : c \in held[k] \cup {Record(k)}
    BY <1>9
  <2> HIDE DEF Record
  <2>3. j < k \/ k < j \/ j = k
    BY <1>1
  <2>4. VarenaDisjoint(b, c)
    <3>1. CASE j < k
      BY <1>8, <2>1, <2>2, <3>1 DEF VarenaDisjoint
    <3>2. CASE k < j
      BY <1>8, <2>1, <2>2, <3>2 DEF VarenaDisjoint
    <3>3. CASE j = k
      BY <1>7, <2>1, <2>2, <3>3
    <3> QED BY <2>3, <3>1, <3>2, <3>3
  <2>5. b[1] \in Nat /\ b[2] \in Nat /\ b[2] <= ends[j]
    BY <1>6, <2>1
  <2>6. \A x, e \in Nat : x <= e /\ e <= VarenaCapacity => x <= VarenaCapacity
    BY <1>1
  <2>7. \A x \in Nat : 0 <= x
    OBVIOUS
  <2> QED BY <1>5, <2>4, <2>5, <2>6, <2>7
<1> QED BY <1>10

(* The blocks of the top frame fill it up to top.                          *)
LEMMA VarenaFilled ==
  ASSUME NEW ends, NEW tops, VarenaFrames(varena, varena_held, ends, tops),
         VarenaHasFrame(varena)
  PROVE  (UNION {b[1] .. b[2] - 1 : b \in Last(varena_held)})
           = varena.frames[varena_frame_top(varena)].bottom .. varena.top - 1
<1> DEFINE m == Len(varena_held)
<1>1. /\ m \in Nat /\ VarenaFrame \in Nat \ {0}
      /\ ends \in [0..m -> 0..VarenaCapacity] /\ tops \in [0..m -> Nat]
      /\ ends[0] = 0 /\ varena.bottom = ends[m] /\ varena.top = tops[m]
      /\ \A k \in 1..m : ends[k - 1] <= tops[k]
      /\ \A k \in 1..m :
           varena.frames[ends[k] - VarenaFrame] = [top |-> tops[k - 1], bottom |-> ends[k - 1]]
      /\ \A k \in 1..m : VarenaTiled(varena_held[k], ends[k - 1], tops[k])
  <2>1. /\ varena_held \in Seq(SUBSET (Nat \X Nat))
        /\ ends \in [0..m -> 0..VarenaCapacity] /\ tops \in [0..m -> Nat]
        /\ ends[0] = 0 /\ varena.bottom = ends[m] /\ varena.top = tops[m]
        /\ \A k \in 1..m : ends[k - 1] <= tops[k]
        /\ \A k \in 1..m :
             varena.frames[ends[k] - VarenaFrame] = [top |-> tops[k - 1], bottom |-> ends[k - 1]]
        /\ \A k \in 1..m : VarenaTiled(varena_held[k], ends[k - 1], tops[k])
    BY Zenon DEF VarenaFrames
  <2>2. m \in Nat
    BY <2>1
  <2>3. VarenaFrame \in Nat \ {0}
    BY VarenaAssumption
  <2> QED BY <2>1, <2>2, <2>3, Zenon
<1>2. m # 0
  BY <1>1 DEF VarenaHasFrame
<1>3. m \in 1..m /\ m \in 0..m /\ m - 1 \in 0..m
  BY <1>1, <1>2
<1> DEFINE from == ends[m - 1]
           to == tops[m]
<1>4. from \in Nat /\ to \in Nat /\ from <= to
  BY <1>1, <1>3
<1>5. varena.frames[varena_frame_top(varena)].bottom = from /\ varena.top = to
  <2>1. varena.frames[ends[m] - VarenaFrame] = [top |-> tops[m - 1], bottom |-> from]
    BY <1>1, <1>3
  <2>2. varena_frame_top(varena) = ends[m] - VarenaFrame
    BY <1>1 DEF varena_frame_top
  <2> QED BY <1>1, <2>1, <2>2
<1>6. (UNION {b[1] .. b[2] - 1 : b \in Last(varena_held)}) = from .. to - 1
  BY <1>1, <1>3 DEF VarenaTiled, Last
<1> HIDE DEF from, to, m
<1> QED BY <1>5, <1>6

(* For every capacity, record and size_t: blocks and records never overlap,*)
(* and a frame's blocks fill it up to top, whatever was claimed, handed out*)
(* and disclaimed in between (varena_claim 103-132, varena_disclaim        *)
(* 134-155, varena_alloc 157-177).                                         *)
THEOREM VarenaLiesApart ==
  ASSUME NULL \notin VarenaStates
  PROVE  VarenaSpec => []VarenaApart
<1>1. VarenaInit => VarenaInv
  BY DEF VarenaInit, VarenaInv
<1>2. VarenaInv /\ [VarenaNext]_varena_vars => VarenaInv'
  <2> SUFFICES ASSUME VarenaInv, [VarenaNext]_varena_vars PROVE VarenaInv'
    OBVIOUS
  <2>1. CASE VarenaCreate
    <3> DEFINE none == [p \in {} |-> 0]
               zero == [k \in 0..0 |-> 0]
    <3>1. /\ varena' = [top |-> 0, bottom |-> 0, frames |-> none]
          /\ varena_held' = <<>> /\ ~varena_wild' /\ varena_wild' \in BOOLEAN
      BY <2>1 DEF VarenaCreate, VarenaInv
    <3>2. none \in [{} -> [top : Nat, bottom : Nat]] /\ {} \in SUBSET Int /\ DOMAIN none = {}
      OBVIOUS
    <3>3. zero \in [0..0 -> 0..VarenaCapacity] /\ zero \in [0..0 -> Nat] /\ zero[0] = 0
      BY VarenaAssumption
    <3> HIDE DEF none, zero
    <3>4. varena' \in VarenaStates
      BY <3>1, <3>2 DEF VarenaStates
    <3>5. VarenaFrames(varena', <<>>, zero, zero)
      <4>1. <<>> \in Seq(SUBSET (Nat \X Nat)) /\ Len(<<>>) = 0 /\ 1..0 = {}
        OBVIOUS
      <4>2. \A j, k \in 0..0 : zero[j] <= zero[k]
        BY <3>3
      <4> QED BY <3>1, <3>2, <3>3, <4>1, <4>2 DEF VarenaFrames
    <3> QED BY <3>1, <3>4, <3>5 DEF VarenaInv
  <2>2. CASE VarenaDestroy
    BY <2>2 DEF VarenaDestroy, VarenaInv
  <2>3. CASE UNCHANGED varena_vars
    BY <2>3 DEF varena_vars, VarenaInv
  <2>4. CASE VarenaDisclaim \/ \E n \in VarenaSizes : VarenaClaim(n) \/ VarenaAlloc(n)
    <3>1. varena # NULL /\ ~varena_wild
      BY <2>4 DEF VarenaDisclaim, VarenaClaim, VarenaAlloc
    <3> QED BY <2>4, <3>1, VarenaStep
  <2> QED BY <2>1, <2>2, <2>3, <2>4 DEF VarenaNext
<1>3. VarenaInv => VarenaApart
  BY VarenaIsApart, VarenaFilled DEF VarenaInv, VarenaApart
<1> QED BY <1>1, <1>2, <1>3, PTL DEF VarenaSpec

-----------------------------------------------------------------------------
(* Varray.                                                                 *)

VarrayStates == [memory : Nat, freed : BOOLEAN, stored : Nat, cap : Nat]

(* What is true of an array that is not freed: the block is as large as the*)
(* capacity says, and the length is within it.                             *)
VarraySound(a) ==
  /\ a \in VarrayStates
  /\ ~a.freed => a.memory = a.cap /\ a.stored <= a.cap

VarrayInv == varray # NULL => VarraySound(varray)

LEMMA VarrayGrowKeeps ==
  ASSUME NEW a, VarraySound(a), ~a.freed, NEW i \in Nat \ {0}, NEW b \in varray_grow(a, i)
  PROVE  VarraySound(b)
<1>1. a \in VarrayStates /\ a.memory = a.cap /\ a.stored <= a.cap
  BY DEF VarraySound
<1>2. PICK c \in VarrayGrownCaps(a, i) :
        b = [a EXCEPT !.memory = c, !.cap = c, !.stored = @ + i]
  BY DEF varray_grow
<1>3. c \in Nat /\ c >= a.cap + i
  BY <1>1, <1>2 DEF VarrayGrownCaps, VarrayStates
<1>4. a.stored \in Nat /\ a.cap \in Nat /\ a.freed \in BOOLEAN /\ a.stored + i \in Nat
  BY <1>1 DEF VarrayStates
<1>5. b = [a EXCEPT !.memory = c, !.cap = c, !.stored = a.stored + i]
  BY <1>2
<1>6. ASSUME NEW s \in Nat, b = [a EXCEPT !.memory = c, !.cap = c, !.stored = s]
      PROVE  b \in VarrayStates /\ b.memory = c /\ b.cap = c /\ b.stored = s
  BY <1>1, <1>3, <1>6 DEF VarrayStates
<1>7. b \in VarrayStates /\ b.memory = c /\ b.cap = c /\ b.stored = a.stored + i
  BY <1>4, <1>5, <1>6
<1> QED BY <1>1, <1>3, <1>4, <1>7 DEF VarraySound

LEMMA VarrayShrinkKeeps ==
  ASSUME NEW a, VarraySound(a), ~a.freed, NEW d \in Nat, d <= a.cap
  PROVE  VarraySound(varray_shrink(a, d))
<1>1. a \in VarrayStates /\ a.memory = a.cap /\ a.stored <= a.cap
  BY DEF VarraySound
<1>2. CASE a.cap = d
  BY <1>1, <1>2 DEF varray_shrink, VarraySound, VarrayStates
<1>3. CASE a.cap # d
  <2> DEFINE m == Min({a.stored, a.cap - d})
  <2>1. a.cap - d \in Nat /\ a.stored \in Nat
    BY <1>1 DEF VarrayStates
  <2>2. m \in Nat /\ m <= a.cap - d
    BY <2>1, LeastOfTwo
  <2>3. varray_shrink(a, d) = [a EXCEPT !.memory = a.cap - d, !.cap = @ - d, !.stored = m]
    BY <1>3 DEF varray_shrink
  <2> HIDE DEF m
  <2> QED BY <1>1, <2>1, <2>2, <2>3 DEF VarraySound, VarrayStates
<1> QED BY <1>2, <1>3

LEMMA VarrayReallocKeeps ==
  ASSUME NEW a, VarraySound(a), ~a.freed, NEW n \in Nat, NEW b \in varray_realloc(a, n)
  PROVE  VarraySound(b)
<1>1. a.cap \in Nat
  BY DEF VarraySound, VarrayStates
<1>2. CASE n = a.cap
  BY <1>2 DEF varray_realloc
<1>3. CASE n > a.cap
  <2>1. n - a.cap \in Nat \ {0} /\ b \in varray_grow(a, n - a.cap)
    BY <1>1, <1>3 DEF varray_realloc
  <2> QED BY <2>1, VarrayGrowKeeps
<1>4. CASE n < a.cap
  <2>1. /\ a.cap - n \in Nat /\ a.cap - n <= a.cap
        /\ b = varray_shrink(a, a.cap - n)
    BY <1>1, <1>4 DEF varray_realloc
  <2> QED BY <2>1, VarrayShrinkKeeps
<1> QED BY <1>1, <1>2, <1>3, <1>4

(* For every bound on the sizes: a position that is accepted is in the     *)
(* block, and the capacity is the block's, after every course of resizes   *)
(* and reallocations before the one to nothing (varray_get_direct 79-90,   *)
(* varray_grow 132-167, varray_shrink 169-193).                            *)
THEOREM VarrayStaysInBounds ==
  ASSUME NULL \notin VarrayStates
  PROVE  VarraySpec => []VarrayInBounds
<1> USE VarrayAssumption
<1>1. VarrayInit => VarrayInv
  BY DEF VarrayInit, VarrayInv
<1>2. VarrayInv /\ [VarrayNext]_varray => VarrayInv'
  <2> SUFFICES ASSUME VarrayInv, [VarrayNext]_varray PROVE VarrayInv'
    OBVIOUS
  <2>1. CASE VarrayCreate
    BY <2>1 DEF VarrayCreate, varray_init, VarrayInv, VarraySound, VarrayStates
  <2>2. CASE VarrayDestroy
    BY <2>2 DEF VarrayDestroy, VarrayInv
  <2>3. CASE UNCHANGED varray
    BY <2>3 DEF VarrayInv
  <2>4. ASSUME NEW n \in 0..VarrayMax, VarrayRealloc(n) PROVE VarrayInv'
    BY <2>4, VarrayReallocKeeps DEF VarrayRealloc, VarrayUsable, VarrayInv
  <2>5. ASSUME NEW n \in 0..VarrayMax, VarrayResize(n) PROVE VarrayInv'
    <3>1. VarraySound(varray) /\ ~varray.freed /\ varray' \in varray_resize(varray, n)
      BY <2>5 DEF VarrayResize, VarrayUsable, VarrayInv
    <3>2. CASE n > varray.cap
      BY <3>1, <3>2, VarrayReallocKeeps DEF varray_resize, VarrayInv
    <3>3. CASE ~(n > varray.cap)
      <4>1. varray' = [varray EXCEPT !.stored = n]
        BY <3>1, <3>3 DEF varray_resize
      <4> QED BY <3>1, <3>3, <4>1 DEF VarrayInv, VarraySound, VarrayStates
    <3> QED BY <3>2, <3>3
  <2> QED BY <2>1, <2>2, <2>3, <2>4, <2>5 DEF VarrayNext
<1>3. VarrayInv => VarrayInBounds
  BY DEF VarrayInv, VarrayInBounds, VarrayUsable, VarraySound, VarrayStates, VarrayAccepts
<1> QED BY <1>1, <1>2, <1>3, PTL DEF VarraySpec

-----------------------------------------------------------------------------
(* Vqueue.                                                                 *)

(* Remainders: equal when the numbers are multiples of c apart, and only   *)
(* then.                                                                   *)
LEMMA RemainderIsUnique ==
  ASSUME NEW c \in Nat \ {0}, NEW q \in Int, NEW r \in 0..c-1,
         NEW p \in Int, NEW s \in 0..c-1, q * c + r = p * c + s
  PROVE  r = s
<1>1. CASE q = p
  BY <1>1
<1>2. CASE q >= p + 1
  <2>1. (q - p) * c >= c
    BY <1>2
  <2> QED BY <2>1
<1>3. CASE p >= q + 1
  <2>1. (p - q) * c >= c
    BY <1>3
  <2> QED BY <2>1
<1> QED BY <1>1, <1>2, <1>3

LEMMA RemainderIs ==
  ASSUME NEW c \in Nat \ {0}, NEW x \in Nat
  PROVE  \E q \in Int, r \in 0..c-1 : r = x % c /\ x = q * c + r
<1>1. \A q, r : q = x \div c /\ r = x % c => x = q * c + r
  OBVIOUS
<1>2. x % c \in 0..c-1 /\ x \div c \in Int
  OBVIOUS
<1> QED BY <1>1, <1>2

LEMMA RemaindersAgree ==
  ASSUME NEW c \in Nat \ {0}, NEW x \in Nat, NEW y \in Nat
  PROVE  x % c = y % c <=> \E m \in Int : x = y + m * c
<1>2. PICK q \in Int, r \in 0..c-1 : r = x % c /\ x = q * c + r
  BY RemainderIs
<1>3. PICK p \in Int, s \in 0..c-1 : s = y % c /\ y = p * c + s
  BY RemainderIs
<1>4. ASSUME r = s PROVE \E m \in Int : x = y + m * c
  <2>1. x = y + (q - p) * c /\ q - p \in Int
    BY <1>2, <1>3, <1>4
  <2> QED BY <2>1
<1>5. ASSUME NEW m \in Int, x = y + m * c PROVE r = s
  <2>1. q * c + r = (p + m) * c + s /\ p + m \in Int
    <3>1. (p + m) * c = p * c + m * c
      OBVIOUS
    <3>3. q * c \in Int /\ p * c \in Int /\ m * c \in Int /\ r \in Int /\ s \in Int
      OBVIOUS
    <3>4. q * c + r = (p * c + s) + m * c
      BY <1>2, <1>3, <1>5
    <3> DEFINE A == q * c
               B == p * c
               D == m * c
               E == (p + m) * c
    <3>5. A \in Int /\ B \in Int /\ D \in Int /\ r \in Int /\ s \in Int
          /\ E = B + D /\ A + r = (B + s) + D
      BY <3>1, <3>3, <3>4
    <3> HIDE DEF A, B, D, E
    <3>6. A + r = E + s /\ p + m \in Int
      BY <3>5
    <3> QED BY <3>6 DEF A, E
  <2> QED BY <2>1, RemainderIsUnique
<1> QED BY <1>2, <1>3, <1>4, <1>5

(* A remainder may be taken on the way: of c, or of a multiple of c.       *)
LEMMA RemainderOnTheWay ==
  ASSUME NEW c \in Nat \ {0}, NEW w \in Nat \ {0}, w % c = 0, NEW x \in Nat
  PROVE  (x % w) \in Nat /\ (x % w) % c = x % c
<1>2. PICK q \in Int, r \in 0..w-1 : r = x % w /\ x = q * w + r
  BY RemainderIs, ZenonT(40)
<1>3. PICK p \in Int, z \in 0..c-1 : z = w % c /\ w = p * c + z
  BY RemainderIs
<1>4. r \in Nat
  OBVIOUS
<1>5. w = p * c
  BY <1>3
<1>6. r = x + (-(q * p)) * c /\ -(q * p) \in Int
  <2>1. q * (p * c) = (q * p) * c
    OBVIOUS
  <2> QED BY <1>2, <1>4, <1>5, <2>1
<1>7. r % c = x % c
  BY <1>4, <1>6, RemaindersAgree
<1> QED BY <1>2, <1>4, <1>7

(* The same added to both.                                                 *)
LEMMA RemaindersMove ==
  ASSUME NEW c \in Nat \ {0}, NEW x \in Nat, NEW y \in Nat, x % c = y % c,
         NEW n \in Int, x + n \in Nat, y + n \in Nat
  PROVE  (x + n) % c = (y + n) % c
<1>1. PICK m \in Int : x = y + m * c
  BY RemaindersAgree
<1>2. x + n = (y + n) + m * c
  BY <1>1
<1> DEFINE v == x + n
           w == y + n
<1>3. v \in Nat /\ w \in Nat /\ v = w + m * c
  BY <1>2
<1> HIDE DEF v, w
<1>4. v % c = w % c
  BY <1>3, RemaindersAgree
<1> QED BY <1>4 DEF v, w

LEMMA RemaindersMoveOn ==
  ASSUME NEW c \in Nat \ {0}, NEW x \in Nat, NEW y \in Nat, x % c = y % c, NEW i \in Nat
  PROVE  (x + i) % c = (y + i) % c
<1>1. x + i \in Nat /\ y + i \in Nat /\ i \in Int
  OBVIOUS
<1> QED BY <1>1, RemaindersMove, ZenonT(40)

LEMMA RemainderOfLess ==
  ASSUME NEW c \in Nat \ {0}
  PROVE  (\A r \in 0..c-1 : r % c = r) /\ c % c = 0
OBVIOUS

(* The elements a queue may hold: also what it has before the first.       *)
VqueueAny == VqueueElems \cup {CHOOSE e \in VqueueElems : TRUE}
VqueueStates ==
  [elems : UNION {[0..cap-1 -> VqueueAny] : cap \in VqueueCaps},
   front : Nat, back : Nat, cap : VqueueCaps, len : Nat]

(* The cursors may be anywhere; round the ring they are len apart.         *)
VqueueRing(q) ==
  /\ q \in VqueueStates
  /\ q.elems \in [0..q.cap-1 -> VqueueAny]
  /\ q.len <= q.cap
  /\ q.back % q.cap = (q.front + q.len) % q.cap

VqueueInv == vqueue # NULL => VqueueRing(vqueue)

(* The element i places from the front.                                    *)
VqueueAt(q, i) == q.elems[(q.front + i) % q.cap]

LEMMA VqueueRingIs ==
  ASSUME NEW q, VqueueRing(q)
  PROVE  /\ q.front \in Nat /\ q.back \in Nat /\ q.cap \in Nat \ {0} /\ q.len \in 0..q.cap
         /\ q.elems \in [0..q.cap-1 -> VqueueAny]
         /\ \A i \in Nat : VqueueAt(q, i) \in VqueueAny
<1>1. /\ q.front \in Nat /\ q.back \in Nat /\ q.cap \in Nat \ {0} /\ q.len \in 0..q.cap
      /\ q.elems \in [0..q.cap-1 -> VqueueAny]
  <2>1. /\ q.front \in Nat /\ q.back \in Nat /\ q.cap \in VqueueCaps /\ q.len \in Nat
        /\ q.len <= q.cap /\ q.elems \in [0..q.cap-1 -> VqueueAny]
    BY DEF VqueueRing, VqueueStates
  <2>2. q.cap \in Nat \ {0}
    BY <2>1, VqueueAssumption
  <2> QED BY <2>1, <2>2
<1>2. ASSUME NEW i \in Nat PROVE VqueueAt(q, i) \in VqueueAny
  <2> DEFINE x == q.front + i
             c == q.cap
  <2>1. x \in Nat /\ c \in Nat \ {0} /\ VqueueAt(q, i) = q.elems[x % c]
        /\ q.elems \in [0..c-1 -> VqueueAny]
    BY <1>1 DEF VqueueAt
  <2> HIDE DEF x, c
  <2>2. PICK d \in Int, r \in 0..c-1 : r = x % c /\ x = d * c + r
    BY <2>1, RemainderIs
  <2>3. q.elems[r] \in VqueueAny
    BY <2>1
  <2> QED BY <2>1, <2>2, <2>3
<1> QED BY <1>1, <1>2

LEMMA VqueueFrontIs ==
  ASSUME NEW q, VqueueRing(q), NEW n \in Nat
  PROVE  /\ VqueueFront(q, n) \in Seq(VqueueAny) /\ Len(VqueueFront(q, n)) = n
         /\ \A k \in 1..n : VqueueFront(q, n)[k] = VqueueAt(q, k - 1)
<1>1. \A k \in 1..n : k - 1 \in Nat
  OBVIOUS
<1>2. q.front \in Nat
  BY VqueueRingIs
<1>3. \A k \in 1..n : q.elems[vqueue_wrap(q, q.front + k - 1)] = VqueueAt(q, k - 1)
  <2> TAKE k \in 1..n
  <2>1. q.front + k - 1 = q.front + (k - 1)
    BY <1>2
  <2> QED BY <2>1 DEF VqueueAt, vqueue_wrap
<1>4. VqueueFront(q, n) = [k \in 1..n |-> VqueueAt(q, k - 1)]
  BY <1>3 DEF VqueueFront
<1>5. \A k \in 1..n : VqueueAt(q, k - 1) \in VqueueAny
  BY <1>1, VqueueRingIs
<1>6. VqueueFront(q, n) \in [1..n -> VqueueAny]
  BY <1>4, <1>5
<1>7. \A m \in Nat : \A s \in [1..m -> VqueueAny] : s \in Seq(VqueueAny) /\ Len(s) = m
  OBVIOUS
<1> QED BY <1>4, <1>6, <1>7

(* The last is the one before the back.                                    *)
LEMMA VqueueBackIs ==
  ASSUME NEW q, VqueueRing(q), q.len > 0
  PROVE  vqueue_back_direct(q) = Last(VqueueFront(q, q.len))
<1>1. /\ q.front \in Nat /\ q.back \in Nat /\ q.len \in Nat /\ q.cap \in Nat \ {0}
      /\ q.back % q.cap = (q.front + q.len) % q.cap
  BY VqueueRingIs DEF VqueueRing
<1> DEFINE c == q.cap
           x == q.back
           y == q.front + q.len
<1>2. c \in Nat \ {0} /\ x \in Nat /\ y \in Nat /\ y > 0 /\ x % c = y % c
  BY <1>1
<1>3. vqueue_back_direct(q) = q.elems[(c + x - 1) % c]
  BY DEF vqueue_back_direct, vqueue_wrap
<1>4. Last(VqueueFront(q, q.len)) = q.elems[(y - 1) % c]
  <2>1. q.len \in 1..q.len
    BY <1>1
  <2>2. Last(VqueueFront(q, q.len)) = VqueueAt(q, q.len - 1)
    BY <1>1, <2>1, VqueueFrontIs, SMTT(40) DEF Last
  <2>3. q.front + (q.len - 1) = y - 1
    BY <1>1
  <2> HIDE DEF y
  <2> QED BY <2>2, <2>3 DEF VqueueAt
<1> HIDE DEF c, x, y
<1>5. (c + x - 1) % c = (y - 1) % c
  <2>1. PICK m \in Int : x = y + m * c
    BY <1>2, RemaindersAgree
  <2> DEFINE v == c + x - 1
             w == y - 1
  <2>2. v \in Nat /\ w \in Nat
    BY <1>2
  <2>3. v = w + (m + 1) * c /\ m + 1 \in Int
    <3>1. (m + 1) * c = m * c + c
      BY <1>2
    <3>2. m * c \in Int
      BY <1>2
    <3> QED BY <1>2, <2>1, <3>1, <3>2
  <2> HIDE DEF v, w
  <2>4. v % c = w % c
    BY <1>2, <2>2, <2>3, RemaindersAgree
  <2> QED BY <2>4 DEF v, w
<1> QED BY <1>3, <1>4, <1>5

(* A front that is n places further on.                                    *)
LEMMA VqueueMoves ==
  ASSUME NEW q, NEW r, q.front \in Nat, r.front \in Nat, q.cap \in Nat \ {0}, NEW n \in Nat,
         r.front % q.cap = (q.front + n) % q.cap
  PROVE  \A i \in Nat : (r.front + i) % q.cap = (q.front + (n + i)) % q.cap
<1>1. q.front + n \in Nat
  OBVIOUS
<1>2. \A i \in Nat : (r.front + i) % q.cap = ((q.front + n) + i) % q.cap
  BY <1>1, RemaindersMoveOn, ZenonT(40)
<1>3. \A i \in Nat : (q.front + n) + i = q.front + (n + i)
  OBVIOUS
<1> QED BY <1>2, <1>3

(* The n oldest are taken.                                                 *)
LEMMA VqueueTakes ==
  ASSUME NEW q, VqueueRing(q), NEW r, NEW n \in 0..q.len,
         r \in VqueueStates, r.elems = q.elems, r.cap = q.cap, r.back = q.back,
         r.len = q.len - n, r.front % q.cap = (q.front + n) % q.cap
  PROVE  VqueueRing(r) /\ VqueueFront(q, n) \o VqueueFront(r, r.len) = VqueueFront(q, q.len)
<1>1. /\ q.front \in Nat /\ q.back \in Nat /\ q.len \in Nat /\ q.cap \in Nat \ {0}
      /\ q.len <= q.cap /\ q.elems \in [0..q.cap-1 -> VqueueAny]
  BY VqueueRingIs
<1>2. r.front \in Nat /\ r.len \in Nat /\ n \in Nat /\ n + r.len = q.len
  BY <1>1 DEF VqueueStates
<1>3. \A i \in Nat : (r.front + i) % q.cap = (q.front + (n + i)) % q.cap
  BY <1>1, <1>2, VqueueMoves, SMTT(40)
<1>4. VqueueRing(r)
  <2>1. q.back % q.cap = (q.front + q.len) % q.cap
    BY DEF VqueueRing
  <2>2. r.len <= q.cap
    BY <1>1, <1>2
  <2>3. (r.front + r.len) % q.cap = (q.front + q.len) % q.cap
    BY <1>2, <1>3
  <2> QED BY <1>1, <2>1, <2>2, <2>3 DEF VqueueRing
<1>5. \A i \in Nat : VqueueAt(r, i) = VqueueAt(q, n + i)
  BY <1>3 DEF VqueueAt
<1> DEFINE a == VqueueFront(q, n)
           b == VqueueFront(r, r.len)
           t == VqueueFront(q, q.len)
<1>6. /\ a \in Seq(VqueueAny) /\ Len(a) = n /\ \A k \in 1..n : a[k] = VqueueAt(q, k - 1)
      /\ b \in Seq(VqueueAny) /\ Len(b) = r.len /\ \A k \in 1..r.len : b[k] = VqueueAt(r, k - 1)
      /\ t \in Seq(VqueueAny) /\ Len(t) = q.len /\ \A k \in 1..q.len : t[k] = VqueueAt(q, k - 1)
  BY <1>1, <1>2, <1>4, VqueueFrontIs
<1> HIDE DEF a, b, t
<1>7. /\ a \o b \in Seq(VqueueAny) /\ Len(a \o b) = q.len
      /\ \A k \in 1..q.len : (a \o b)[k] = IF k <= n THEN a[k] ELSE b[k - n]
  <2> DEFINE l == r.len
             z == q.len
  <2>1. l \in Nat /\ z = n + l /\ Len(a) = n /\ Len(b) = l
        /\ a \in Seq(VqueueAny) /\ b \in Seq(VqueueAny)
    BY <1>2, <1>6
  <2> HIDE DEF l, z
  <2>2. /\ a \o b \in Seq(VqueueAny) /\ Len(a \o b) = z
        /\ \A k \in 1..z : (a \o b)[k] = IF k <= n THEN a[k] ELSE b[k - n]
    BY <1>2, <2>1, ConcatProperties
  <2> QED BY <2>2 DEF z
<1>8. ASSUME NEW k \in 1..q.len PROVE (a \o b)[k] = t[k]
  <2>1. CASE k <= n
    BY <1>2, <1>6, <1>7, <2>1
  <2>2. CASE ~(k <= n)
    <3>1. k - n \in 1..r.len /\ k - n - 1 \in Nat /\ n + (k - n - 1) = k - 1
      <4>1. \A l \in Nat : \A j \in 1..n + l : ~(j <= n)
              => j - n \in 1..l /\ j - n - 1 \in Nat /\ n + (j - n - 1) = j - 1
        BY <1>2
      <4>2. k \in 1..n + r.len
        BY <1>2
      <4> QED BY <1>2, <2>2, <4>1, <4>2
    <3>2. b[k - n] = VqueueAt(q, k - 1)
      BY <1>5, <1>6, <3>1
    <3> QED BY <1>6, <1>7, <2>2, <3>2
  <2> QED BY <2>1, <2>2
<1>9. a \o b = t
  BY <1>6, <1>7, <1>8, SeqEqual
<1> QED BY <1>4, <1>9 DEF a, b, t

(* Where a slot lies, counted round the ring from the back.                *)
VqueueSlot(q, i) == (i - (q.back % q.cap) + q.cap) % q.cap

LEMMA VqueueOffset ==
  ASSUME NEW q, VqueueRing(q), NEW j \in Nat, j < q.len + q.cap
  PROVE  VqueueSlot(q, vqueue_wrap(q, q.front + j))
           = IF j >= q.len THEN j - q.len ELSE q.cap + j - q.len
<1> DEFINE c == q.cap
           f == q.front
           b == q.back
           l == q.len
<1>c. c \in Nat \ {0} /\ f \in Nat /\ b \in Nat /\ l \in 0..c /\ b % c = (f + l) % c /\ j < l + c
  <2>1. q.back % q.cap = (q.front + q.len) % q.cap
    BY DEF VqueueRing
  <2>2. c \in Nat \ {0} /\ f \in Nat /\ b \in Nat /\ l \in 0..c
    BY VqueueRingIs
  <2> QED BY <2>1, <2>2
<1> HIDE DEF c, f, b, l
<1> DEFINE v == f + j
           w == f + l
           y == IF j >= l THEN j - l ELSE c + j - l
<1>1. v \in Nat /\ w \in Nat /\ v - w = j - l
  BY <1>c
<1>2. y \in 0..c-1 /\ (y = j - l \/ y = (j - l) + c)
  BY <1>c
<1>a. b % c = w % c
  BY <1>c
<1>b. vqueue_wrap(q, q.front + j) = v % c
  BY DEF vqueue_wrap, f, c
<1> HIDE DEF v, w, y
<1>3. PICK z \in Int, i \in 0..c-1 : i = v % c /\ v = z * c + i
  BY <1>1, <1>c, RemainderIs
<1>4. PICK p \in Int, e \in 0..c-1 : e = w % c /\ w = p * c + e
  BY <1>1, <1>c, RemainderIs
<1> DEFINE x == i - e + c
<1>5. x \in Nat
  BY <1>c
<1>6. \E m \in Int : x = y + m * c
  <2> DEFINE Q == z * c
             P == p * c
  <2>1. Q \in Int /\ P \in Int /\ v = Q + i /\ w = P + e
    BY <1>3, <1>4, <1>c
  <2>2. (p - z) * c = P - Q /\ (p - z + 1) * c = P - Q + c
    BY <1>c
  <2> HIDE DEF Q, P
  <2>3. x = (j - l) + (P - Q) + c
    BY <1>1, <1>c, <2>1
  <2> HIDE DEF x
  <2>4. CASE y = j - l
    <3>1. x = y + (p - z + 1) * c /\ p - z + 1 \in Int
      BY <1>c, <2>1, <2>2, <2>3, <2>4
    <3> QED BY <3>1, Zenon
  <2>5. CASE y = (j - l) + c
    <3>1. x = y + (p - z) * c /\ p - z \in Int
      BY <1>c, <2>1, <2>2, <2>3, <2>5
    <3> QED BY <3>1, Zenon
  <2> QED BY <1>2, <2>4, <2>5
<1> HIDE DEF x
<1>7. y \in Nat
  BY <1>2
<1>8. x % c = y % c
  BY <1>5, <1>6, <1>7, <1>c, RemaindersAgree
<1>9. y % c = y
  BY <1>2, <1>c, RemainderOfLess
<1>10. VqueueSlot(q, vqueue_wrap(q, q.front + j)) = x % c
  <2>1. vqueue_wrap(q, q.front + j) = i
    BY <1>3, <1>b
  <2>2. q.back % q.cap = e
    BY <1>4, <1>a DEF b, c
  <2> QED BY <2>1, <2>2, Zenon DEF x, c, VqueueSlot
<1> QED BY <1>8, <1>9, <1>10 DEF y, c, l

(* What a call took is put behind the back, and d places are let go of.    *)
VqueuePut(q, s, d, r) ==
  /\ Len(s) <= q.cap
  /\ d = IF Len(s) > q.cap - q.len THEN Len(s) - (q.cap - q.len) ELSE 0
  /\ r.front \in Nat /\ r.back \in Nat /\ r.cap = q.cap
  /\ r.elems = VqueueCopy(q, q.back % q.cap, s)
  /\ r.front % q.cap = (q.front + d) % q.cap
  /\ r.back % q.cap = (q.back + Len(s)) % q.cap
  /\ r.len = q.len + Len(s) - d
  /\ r.elems \in [0..q.cap-1 -> VqueueAny] => r \in VqueueStates

LEMMA VqueuePuts ==
  ASSUME NEW q, VqueueRing(q), NEW s \in Seq(VqueueAny), NEW d, NEW r, VqueuePut(q, s, d, r)
  PROVE  /\ VqueueRing(r)
         /\ VqueueFront(r, r.len) = VqueueNewest(q.cap, VqueueFront(q, q.len) \o s)
<1> DEFINE c == q.cap
           f == q.front
           b == q.back
           l == q.len
           n == Len(s)
           t == VqueueFront(q, l) \o s
<1>1. /\ c \in Nat \ {0} /\ f \in Nat /\ b \in Nat /\ l \in 0..c /\ n \in 0..c
      /\ q.elems \in [0..c-1 -> VqueueAny] /\ b % c = (f + l) % c
  <2>1. n \in Nat /\ n <= c
    BY DEF VqueuePut
  <2>2. q.back % q.cap = (q.front + q.len) % q.cap
    BY DEF VqueueRing
  <2>3. /\ c \in Nat \ {0} /\ f \in Nat /\ b \in Nat /\ l \in 0..c
        /\ q.elems \in [0..c-1 -> VqueueAny]
    BY VqueueRingIs
  <2> QED BY <2>1, <2>2, <2>3
<1>2. /\ d = (IF n > c - l THEN n - (c - l) ELSE 0)
      /\ r.cap = c /\ r.front % c = (f + d) % c /\ r.back % c = (b + n) % c /\ r.len = l + n - d
      /\ r.elems = [i \in 0..c-1 |->
                      IF VqueueSlot(q, i) < n THEN s[VqueueSlot(q, i) + 1] ELSE q.elems[i]]
  BY DEF VqueueCopy, VqueuePut, VqueueSlot
<1>3. /\ d \in Nat /\ l \in Nat /\ n \in Nat
      /\ d <= n /\ l + n - d \in 0..c /\ n - (c - l) <= d
      /\ l + n - (IF c <= l + n THEN c ELSE l + n) = d
  <2>1. d = IF n > c - l THEN n - (c - l) ELSE 0
    BY DEF VqueuePut
  <2>2. c \in Nat \ {0} /\ l \in 0..c /\ n \in 0..c
    BY <1>1
  <2> HIDE DEF c, l, n
  <2>3. CASE n > c - l
    BY <2>1, <2>2, <2>3
  <2>4. CASE ~(n > c - l)
    BY <2>1, <2>2, <2>4
  <2> QED BY <2>3, <2>4
<1>4. \A i \in Nat : VqueueAt(q, i) = q.elems[(f + i) % c]
  BY DEF VqueueAt
<1>5. \A i \in 0..n-1 : s[i + 1] \in VqueueAny
  <2>1. \A k \in 1..Len(s) : s[k] \in VqueueAny
    OBVIOUS
  <2>2. \A i \in 0..n-1 : i + 1 \in 1..Len(s)
    OBVIOUS
  <2> QED BY <2>1, <2>2
<1>6. /\ t \in Seq(VqueueAny) /\ Len(t) = l + n
      /\ \A j \in 0..l+n-1 : t[j + 1] = IF j >= l THEN s[j - l + 1] ELSE VqueueAt(q, j)
  <2> DEFINE a == VqueueFront(q, l)
  <2>1. a \in Seq(VqueueAny) /\ Len(a) = l /\ \A k \in 1..l : a[k] = VqueueAt(q, k - 1)
    BY <1>3, VqueueFrontIs
  <2>2. t = a \o s
    OBVIOUS
  <2> HIDE DEF a, t, n, l
  <2>3. s \in Seq(VqueueAny) /\ Len(s) = n
    BY DEF n
  <2>4. /\ t \in Seq(VqueueAny) /\ Len(t) = l + n
        /\ \A i \in 1..l+n : t[i] = IF i <= l THEN a[i] ELSE s[i - l]
    BY <2>1, <2>2, <2>3, ConcatProperties
  <2>5. ASSUME NEW j \in 0..l+n-1
        PROVE  t[j + 1] = IF j >= l THEN s[j - l + 1] ELSE VqueueAt(q, j)
    <3>1. j + 1 \in 1..l+n /\ (j + 1) - l = j - l + 1 /\ (j + 1) - 1 = j
      BY <1>3
    <3>2. CASE j >= l
      BY <1>3, <2>4, <3>1, <3>2
    <3>3. CASE ~(j >= l)
      <4>1. j + 1 \in 1..l /\ j + 1 <= l
        BY <1>3, <3>3
      <4> QED BY <2>1, <2>4, <3>1, <3>3, <4>1
    <3> QED BY <3>2, <3>3
  <2> QED BY <2>4, <2>5
<1> HIDE DEF c, f, b, l, n, t
(* The slots of what is kept and of what is new.                           *)
<1>7. ASSUME NEW j \in d..l+n-1
      PROVE  r.elems[(f + j) % c] = t[j + 1]
  <2>1. j \in Nat /\ j < l + c /\ j \in 0..l+n-1
    BY <1>1, <1>3
  <2>2. PICK p \in Int, i \in 0..c-1 : i = (f + j) % c /\ f + j = p * c + i
    <3>1. f + j \in Nat
      BY <1>1, <2>1
    <3> QED BY <1>1, <3>1, RemainderIs
  <2>3. VqueueSlot(q, i) = IF j >= l THEN j - l ELSE c + j - l
    <3>1. i = vqueue_wrap(q, q.front + j)
      BY <2>2 DEF vqueue_wrap, f, c
    <3>2. j < q.len + q.cap
      BY <2>1 DEF l, c
    <3> QED BY <2>1, <3>1, <3>2, VqueueOffset DEF l, c
  <2> DEFINE k == VqueueSlot(q, i)
  <2>4. k = IF j >= l THEN j - l ELSE c + j - l
    BY <2>3
  <2>5. r.elems[i] = IF k < n THEN s[k + 1] ELSE q.elems[i]
    BY <1>2
  <2>6. t[j + 1] = IF j >= l THEN s[j - l + 1] ELSE VqueueAt(q, j)
    BY <1>6, <2>1
  <2>7. VqueueAt(q, j) = q.elems[i]
    BY <1>4, <2>1, <2>2
  <2> HIDE DEF k
  <2>8. CASE j >= l
    <3>1. k = j - l /\ k < n
      BY <1>1, <1>3, <2>1, <2>4, <2>8
    <3> QED BY <2>2, <2>5, <2>6, <2>8, <3>1
  <2>9. CASE ~(j >= l)
    <3>1. ~(k < n)
      BY <1>1, <1>3, <2>1, <2>4, <2>9
    <3> QED BY <2>2, <2>5, <2>6, <2>7, <2>9, <3>1
  <2> QED BY <2>8, <2>9
<1>8. r.elems \in [0..c-1 -> VqueueAny]
  <2> SUFFICES ASSUME NEW i \in 0..c-1
               PROVE  (IF VqueueSlot(q, i) < n THEN s[VqueueSlot(q, i) + 1]
                       ELSE q.elems[i]) \in VqueueAny
    BY <1>2
  <2> DEFINE x == i - (b % c) + c
  <2>1. x \in Nat
    <3>1. PICK p \in Int, e \in 0..c-1 : e = b % c /\ b = p * c + e
      BY <1>1, RemainderIs
    <3>2. x = i - e + c
      BY <3>1
    <3> QED BY <1>1, <3>2, SMTT(40)
  <2> HIDE DEF x
  <2>2. PICK p \in Int, k \in 0..c-1 : k = x % c /\ x = p * c + k
    BY <1>1, <2>1, RemainderIs
  <2>3. k < n => k \in 0..n-1
    BY <1>1, <1>3
  <2>4. (IF k < n THEN s[k + 1] ELSE q.elems[i]) \in VqueueAny
    BY <1>1, <1>5, <2>3
  <2>5. k = VqueueSlot(q, i)
    BY <2>2 DEF x, b, c, VqueueSlot
  <2> QED BY <2>4, <2>5
<1>9. \A i \in Nat : (r.front + i) % c = (f + (d + i)) % c
  <2>1. /\ q.cap \in Nat \ {0} /\ q.front \in Nat /\ r.front \in Nat /\ d \in Nat
        /\ r.front % q.cap = (q.front + d) % q.cap
    BY <1>1, <1>3 DEF c, f, VqueuePut
  <2> QED BY <2>1, VqueueMoves DEF c, f
<1>10. VqueueRing(r)
  <2>1. r \in VqueueStates
    BY <1>8 DEF c, VqueuePut
  <2>2. r.len <= r.cap /\ r.elems \in [0..r.cap-1 -> VqueueAny]
    BY <1>2, <1>3, <1>8
  <2>3. r.back % r.cap = (r.front + r.len) % r.cap
    <3>1. (b + n) % c = ((f + l) + n) % c
      <4>1. f + l \in Nat /\ b \in Nat /\ n \in Nat /\ c \in Nat \ {0}
        BY <1>1, <1>3
      <4>2. b % c = (f + l) % c
        BY <1>1
      <4> QED BY <4>1, <4>2, RemaindersMoveOn, ZenonT(40)
    <3>2. (r.front + r.len) % c = (f + (d + r.len)) % c
      <4>1. r.len \in Nat
        BY <1>2, <1>3
      <4> QED BY <1>9, <4>1
    <3>3. d + r.len = l + n /\ f + (l + n) = (f + l) + n
      BY <1>1, <1>2, <1>3
    <3> QED BY <1>2, <3>1, <3>2, <3>3
  <2> QED BY <2>1, <2>2, <2>3 DEF VqueueRing
<1> DEFINE u == VqueueFront(r, r.len)
           m == l + n - d
<1>11. /\ u \in Seq(VqueueAny) /\ Len(u) = m
       /\ \A k \in 1..m : u[k] = VqueueAt(r, k - 1)
  <2>1. r.len = m /\ m \in Nat
    BY <1>2, <1>3
  <2> HIDE DEF m
  <2> QED BY <1>10, <2>1, VqueueFrontIs
<1>12. VqueueNewest(c, t) = SubSeq(t, d + 1, l + n)
  <2>1. Min({c, l + n}) = IF c <= l + n THEN c ELSE l + n
    <3>1. c \in Int /\ l + n \in Int
      BY <1>1, <1>3
    <3> QED BY <3>1, LeastOfTwo
  <2>2. l + n - Min({c, l + n}) = d
    BY <1>3, <2>1
  <2>3. Len(t) = l + n
    BY <1>6
  <2>4. VqueueNewest(c, t) = SubSeq(t, Len(t) - Min({c, Len(t)}) + 1, Len(t))
    BY DEF VqueueNewest
  <2>5. VqueueNewest(c, t) = SubSeq(t, (l + n) - Min({c, l + n}) + 1, l + n)
    BY <2>3, <2>4
  <2>6. (l + n) - Min({c, l + n}) = d
    <3>1. Min({c, l + n}) \in Int
      BY <1>1, <1>3, <2>1
    <3> QED BY <1>3, <2>2, <3>1
  <2> QED BY <2>5, <2>6
<1> DEFINE v == SubSeq(t, d + 1, l + n)
<1>13. /\ v \in Seq(VqueueAny) /\ Len(v) = m
       /\ \A k \in 1..m : v[k] = t[d + k]
  <2>1. \A i \in d + 1 .. l + n : t[i] \in VqueueAny
    <3>1. \A i \in 1..Len(t) : t[i] \in VqueueAny
      BY <1>6
    <3>2. \A i \in d + 1 .. l + n : i \in 1..Len(t)
      BY <1>3, <1>6
    <3> QED BY <3>1, <3>2
  <2>2. d + 1 \in Int /\ l + n \in Int
    BY <1>3
  <2>3. /\ v \in Seq(VqueueAny) /\ Len(v) = IF d + 1 <= l + n THEN l + n - (d + 1) + 1 ELSE 0
        /\ \A i \in 1 .. l + n - (d + 1) + 1 : v[i] = t[d + 1 + i - 1]
    <3> DEFINE x == d + 1
               y == l + n
    <3>1. x \in Int /\ y \in Int /\ (\A i \in x .. y : t[i] \in VqueueAny) /\ v = SubSeq(t, x, y)
      BY <2>1, <2>2
    <3> HIDE DEF x, y, v
    <3>2. /\ v \in Seq(VqueueAny) /\ Len(v) = IF x <= y THEN y - x + 1 ELSE 0
          /\ \A i \in 1 .. y - x + 1 : v[i] = t[x + i - 1]
      BY <3>1, SubSeqProperties
    <3>3. y - x + 1 = l + n - (d + 1) + 1 /\ \A i \in Int : x + i - 1 = d + 1 + i - 1
      BY <1>3 DEF x, y
    <3> QED BY <3>2, <3>3 DEF x, y
  <2>4. \A i \in Int : d + 1 + i - 1 = d + i
    BY <1>3
  <2>5. l + n - (d + 1) + 1 = m /\ (IF d + 1 <= l + n THEN l + n - (d + 1) + 1 ELSE 0) = m
    BY <1>1, <1>3
  <2>6. m \in Nat
    BY <1>3
  <2> DEFINE o == l + n - (d + 1) + 1
  <2> HIDE DEF v, m, o
  <2>7. o = m /\ Len(v) = m
    BY <2>3, <2>5 DEF o
  <2>8. \A i \in 1..m : v[i] = t[d + 1 + i - 1]
    BY <2>3, <2>7 DEF o
  <2>9. \A i \in 1..m : i \in Int
    BY <2>6
  <2> QED BY <2>3, <2>4, <2>7, <2>8, <2>9
<1>14. ASSUME NEW k \in 1..m PROVE u[k] = v[k]
  <2> DEFINE j == d + (k - 1)
  <2>1. k - 1 \in Nat /\ j \in d..l+n-1 /\ j + 1 = d + k
    BY <1>1, <1>3
  <2>2. u[k] = r.elems[(f + (d + (k - 1))) % c]
    BY <1>2, <1>9, <1>11, <2>1 DEF VqueueAt
  <2>3. v[k] = t[j + 1]
    BY <1>13, <2>1
  <2>4. u[k] = r.elems[(f + j) % c]
    BY <2>2
  <2> HIDE DEF j, u, v
  <2> QED BY <1>7, <2>1, <2>3, <2>4
<1> HIDE DEF u, v, m
<1>15. u = v
  BY <1>11, <1>13, <1>14, SeqEqual
<1> QED BY <1>10, <1>12, <1>15 DEF u, v, t, c, l

(* What a call has to keep.                                                *)
VqueueKept(q, r, moved) ==
  /\ moved.dest \o VqueueFront(r, r.len)
       = IF moved.src = <<>> THEN VqueueFront(q, q.len)
         ELSE VqueueNewest(q.cap, VqueueFront(q, q.len) \o moved.src)
  /\ r.len > 0 => vqueue_back_direct(r) = Last(VqueueFront(r, r.len))

LEMMA VqueuePutKeeps ==
  ASSUME NEW q, VqueueRing(q), NEW s \in Seq(VqueueAny), Len(s) > 0, NEW d, NEW r,
         VqueuePut(q, s, d, r)
  PROVE  VqueueRing(r) /\ VqueueKept(q, r, [src |-> s, dest |-> <<>>])
<1> DEFINE m == [src |-> s, dest |-> <<>>]
<1>1. VqueueRing(r) /\ VqueueFront(r, r.len) = VqueueNewest(q.cap, VqueueFront(q, q.len) \o s)
  BY VqueuePuts
<1>2. m.src = s /\ m.dest = <<>> /\ s # <<>>
  OBVIOUS
<1>3. VqueueFront(r, r.len) \in Seq(VqueueAny)
  <2>1. r.len \in Nat
    BY <1>1 DEF VqueueRing, VqueueStates
  <2> QED BY <1>1, <2>1, VqueueFrontIs
<1>4. <<>> \o VqueueFront(r, r.len) = VqueueFront(r, r.len)
  BY <1>3
<1>5. r.len > 0 => vqueue_back_direct(r) = Last(VqueueFront(r, r.len))
  BY <1>1, VqueueBackIs
<1> HIDE DEF m
<1>6. VqueueKept(q, r, m)
  BY <1>1, <1>2, <1>4, <1>5 DEF VqueueKept
<1> QED BY <1>1, <1>6 DEF m

LEMMA VqueueTakeKeeps ==
  ASSUME NEW q, VqueueRing(q), NEW r, NEW n \in 0..q.len,
         r \in VqueueStates, r.elems = q.elems, r.cap = q.cap, r.back = q.back,
         r.len = q.len - n, r.front % q.cap = (q.front + n) % q.cap
  PROVE  VqueueRing(r) /\ VqueueKept(q, r, [src |-> <<>>, dest |-> VqueueFront(q, n)])
<1> DEFINE m == [src |-> <<>>, dest |-> VqueueFront(q, n)]
<1>1. VqueueRing(r) /\ VqueueFront(q, n) \o VqueueFront(r, r.len) = VqueueFront(q, q.len)
  BY VqueueTakes
<1>2. m.src = <<>> /\ m.dest = VqueueFront(q, n)
  OBVIOUS
<1>3. r.len > 0 => vqueue_back_direct(r) = Last(VqueueFront(r, r.len))
  BY <1>1, VqueueBackIs
<1> HIDE DEF m
<1>4. VqueueKept(q, r, m)
  BY <1>1, <1>2, <1>3 DEF VqueueKept
<1> QED BY <1>1, <1>4 DEF m

(* The cursors after a call that wraps, and after one that does not.       *)
LEMMA VqueueWraps ==
  ASSUME NEW q, VqueueRing(q), NEW x \in Nat
  PROVE  /\ vqueue_wrap(q, x) \in Nat /\ vqueue_wrap(q, x) % q.cap = x % q.cap
         /\ (x % VqueueWord) \in Nat /\ (x % VqueueWord) % q.cap = x % q.cap
<1> DEFINE c == q.cap
           w == VqueueWord
<1>1. c \in Nat \ {0} /\ w \in Nat \ {0} /\ w % c = 0 /\ c % c = 0
  <2>1. q.cap \in Nat \ {0} /\ q.cap \in VqueueCaps
    BY VqueueRingIs DEF VqueueRing, VqueueStates
  <2> QED BY <2>1, RemainderOfLess, VqueueAssumption
<1> HIDE DEF c, w
<1>2. (x % c) \in Nat /\ (x % c) % c = x % c
  BY <1>1, RemainderOnTheWay
<1>3. (x % w) \in Nat /\ (x % w) % c = x % c
  BY <1>1, RemainderOnTheWay
<1> QED BY <1>2, <1>3, Zenon DEF c, w, vqueue_wrap

LEMMA VqueueEnqueueKeeps ==
  ASSUME VqueueRing(vqueue), NEW e \in VqueueElems, NEW overwrite \in BOOLEAN,
         VqueueEnqueue(e, overwrite)
  PROVE  VqueueRing(vqueue') /\ VqueueKept(vqueue, vqueue', vqueue_moved')
<1> DEFINE q == vqueue
           r == vqueue'
           s == <<e>>
           d == IF q.len = q.cap THEN 1 ELSE 0
<1>1. /\ q.front \in Nat /\ q.back \in Nat /\ q.cap \in Nat \ {0} /\ q.len \in 0..q.cap
      /\ q \in VqueueStates
  BY VqueueRingIs DEF VqueueRing
<1>2. /\ r.elems = VqueueCopy(q, vqueue_wrap(q, q.back), s)
      /\ r.back = vqueue_wrap(q, q.back + 1)
      /\ r.front = IF q.len = q.cap THEN vqueue_wrap(q, q.front + 1) ELSE q.front
      /\ r.len = IF q.len = q.cap THEN q.len ELSE q.len + 1
      /\ r.cap = q.cap
      /\ r = [elems |-> r.elems, front |-> r.front, back |-> r.back, cap |-> r.cap, len |-> r.len]
      /\ vqueue_moved' = [src |-> s, dest |-> <<>>]
  BY <1>1 DEF VqueueEnqueue, VqueueStates
<1>3. s \in Seq(VqueueAny) /\ Len(s) = 1
  BY DEF VqueueAny
<1> HIDE DEF s
<1>4. r.front \in Nat /\ r.front % q.cap = (q.front + d) % q.cap
  <2>1. q.front + 1 \in Nat
    BY <1>1
  <2>2. vqueue_wrap(q, q.front + 1) \in Nat
        /\ vqueue_wrap(q, q.front + 1) % q.cap = (q.front + 1) % q.cap
    BY <2>1, VqueueWraps
  <2>3. q.front + 0 = q.front
    BY <1>1
  <2> QED BY <1>1, <1>2, <2>2, <2>3
<1>5. r.back \in Nat /\ r.back % q.cap = (q.back + Len(s)) % q.cap
  <2>1. q.back + 1 \in Nat
    BY <1>1
  <2>2. vqueue_wrap(q, q.back + 1) \in Nat
        /\ vqueue_wrap(q, q.back + 1) % q.cap = (q.back + 1) % q.cap
    BY <2>1, VqueueWraps
  <2> QED BY <1>2, <1>3, <2>2
<1>6. /\ Len(s) <= q.cap /\ r.len = q.len + Len(s) - d /\ r.len \in Nat
      /\ d = IF Len(s) > q.cap - q.len THEN Len(s) - (q.cap - q.len) ELSE 0
  <2>1. \A l, c \in Nat : l <= c /\ c # 0 =>
          /\ 1 <= c
          /\ (IF l = c THEN l ELSE l + 1) = l + 1 - (IF l = c THEN 1 ELSE 0)
          /\ (IF l = c THEN 1 ELSE 0) = IF 1 > c - l THEN 1 - (c - l) ELSE 0
    OBVIOUS
  <2>2. (IF q.len = q.cap THEN q.len ELSE q.len + 1) \in Nat
    BY <1>1
  <2> QED BY <1>1, <1>2, <1>3, <2>1, <2>2
<1>7. r.elems \in [0..q.cap-1 -> VqueueAny] => r \in VqueueStates
  BY <1>1, <1>2, <1>4, <1>5, <1>6 DEF VqueueStates
<1>8. r.elems = VqueueCopy(q, q.back % q.cap, s)
  BY <1>2 DEF vqueue_wrap
<1> HIDE DEF q, r, d
<1>9. VqueuePut(q, s, d, r)
  BY <1>2, <1>4, <1>5, <1>6, <1>7, <1>8 DEF VqueuePut
<1>10. VqueueRing(q) /\ Len(s) > 0
  BY <1>3 DEF q
<1> QED BY <1>2, <1>3, <1>9, <1>10, VqueuePutKeeps DEF q, r

LEMMA VqueueEnqueueSomeKeeps ==
  ASSUME VqueueRing(vqueue), NEW N \in Nat \ {0}, NEW src \in [1..N -> VqueueElems],
         NEW overwrite \in BOOLEAN, VqueueEnqueueSome(src, overwrite)
  PROVE  VqueueRing(vqueue') /\ VqueueKept(vqueue, vqueue', vqueue_moved')
<1> DEFINE q == vqueue
           r == vqueue'
           room == q.cap - q.len
           can == room + IF overwrite THEN q.len ELSE 0
           n == Min({can, Len(src)})
           s == SubSeq(src, 1, n)
           d == IF n > room THEN n - room ELSE 0
<1>1. /\ q.front \in Nat /\ q.back \in Nat /\ q.cap \in Nat \ {0} /\ q.len \in 0..q.cap
      /\ q \in VqueueStates
  BY VqueueRingIs DEF VqueueRing
<1>2. /\ can # 0
      /\ r.elems = VqueueCopy(q, vqueue_wrap(q, q.back), s)
      /\ r.back = (q.back + n) % VqueueWord
      /\ r.front = (q.front + d) % VqueueWord
      /\ r.len = q.len + Min({n, room})
      /\ r.cap = q.cap
      /\ r = [elems |-> r.elems, front |-> r.front, back |-> r.back, cap |-> r.cap, len |-> r.len]
      /\ vqueue_moved' = [src |-> s, dest |-> <<>>]
  BY <1>1 DEF VqueueEnqueueSome, VqueueStates
<1>3. src \in Seq(VqueueElems) /\ Len(src) = N
  OBVIOUS
<1> HIDE DEF r, s, d, room, can, n
<1>4. room \in 0..q.cap /\ can \in 1..q.cap
  BY <1>1, <1>2 DEF room, can
<1>5. n = (IF can <= N THEN can ELSE N) /\ n \in 1..q.cap /\ n \in 1..N
  <2>1. n = IF can <= N THEN can ELSE N
    <3>1. can \in Int /\ N \in Int
      BY <1>1, <1>4
    <3> QED BY <1>3, <3>1, LeastOfTwo DEF n
  <2> QED BY <1>1, <1>4, <2>1
<1>6. Min({n, room}) = IF n <= room THEN n ELSE room
  <2>1. n \in Int /\ room \in Int
    BY <1>1, <1>4, <1>5
  <2> QED BY <2>1, LeastOfTwo
<1>7. s \in Seq(VqueueAny) /\ Len(s) = n
  <2>1. \A i \in 1..n : src[i] \in VqueueAny
    BY <1>5 DEF VqueueAny
  <2>2. 1 \in Int /\ n \in Int
    BY <1>5
  <2>3. s \in Seq(VqueueAny) /\ Len(s) = IF 1 <= n THEN n - 1 + 1 ELSE 0
    BY <2>1, <2>2, SubSeqProperties DEF s
  <2> QED BY <1>5, <2>3
<1>8. /\ d \in Nat /\ Len(s) <= q.cap /\ r.len = q.len + Len(s) - d /\ r.len \in Nat
      /\ d = IF Len(s) > q.cap - q.len THEN Len(s) - (q.cap - q.len) ELSE 0
  <2>1. CASE n <= room
    BY <1>1, <1>2, <1>4, <1>5, <1>6, <1>7, <2>1 DEF d, room
  <2>2. CASE ~(n <= room)
    <3>1. d = n - room /\ r.len = q.len + room /\ room = q.cap - q.len /\ Len(s) = n
      BY <1>1, <1>2, <1>4, <1>5, <1>6, <1>7, <2>2 DEF d, room
    <3>2. q.len + room = q.len + n - (n - room) /\ n - room \in Nat /\ q.len + room \in Nat
      BY <1>1, <1>4, <1>5, <2>2
    <3> QED BY <1>5, <2>2, <3>1, <3>2
  <2> QED BY <2>1, <2>2
<1>9. r.front \in Nat /\ r.front % q.cap = (q.front + d) % q.cap
  <2>1. q.front + d \in Nat
    BY <1>1, <1>8, SMTT(40)
  <2> QED BY <1>2, <2>1, VqueueWraps
<1>10. r.back \in Nat /\ r.back % q.cap = (q.back + Len(s)) % q.cap
  <2>1. q.back + n \in Nat
    BY <1>1, <1>5
  <2> QED BY <1>2, <1>7, <2>1, VqueueWraps
<1>11. r.elems \in [0..q.cap-1 -> VqueueAny] => r \in VqueueStates
  BY <1>1, <1>2, <1>8, <1>9, <1>10 DEF VqueueStates
<1>12. r.elems = VqueueCopy(q, q.back % q.cap, s)
  BY <1>2 DEF vqueue_wrap
<1>13. VqueueRing(q) /\ Len(s) > 0
  BY <1>5, <1>7
<1> HIDE DEF q
<1>14. VqueuePut(q, s, d, r)
  BY <1>2, <1>8, <1>9, <1>10, <1>11, <1>12 DEF VqueuePut
<1> QED BY <1>2, <1>7, <1>13, <1>14, VqueuePutKeeps DEF q, r

LEMMA VqueueDequeueKeeps ==
  ASSUME VqueueRing(vqueue),
         VqueueDequeue \/ \E k \in 1..VqueueBatch : VqueueDequeueSome(k)
  PROVE  VqueueRing(vqueue') /\ VqueueKept(vqueue, vqueue', vqueue_moved')
<1> DEFINE q == vqueue
           r == vqueue'
<1>1. /\ q.front \in Nat /\ q.back \in Nat /\ q.cap \in Nat \ {0} /\ q.len \in 0..q.cap
      /\ q \in VqueueStates
  BY VqueueRingIs DEF VqueueRing
<1>2. \E n \in 0..q.len :
        /\ vqueue_moved' = [src |-> <<>>, dest |-> VqueueFront(q, n)]
        /\ \/ r = [q EXCEPT !.front = vqueue_wrap(q, @ + n), !.len = @ - n]
           \/ r = [q EXCEPT !.front = (@ + n) % VqueueWord, !.len = @ - n]
  <2>1. CASE VqueueDequeue
    <3>1. 1 \in 0..q.len
      BY <1>1, <2>1 DEF VqueueDequeue
    <3> QED BY <2>1, <3>1 DEF VqueueDequeue
  <2>2. ASSUME NEW k \in 1..VqueueBatch, VqueueDequeueSome(k)
        PROVE  \E n \in 0..q.len :
                 /\ vqueue_moved' = [src |-> <<>>, dest |-> VqueueFront(q, n)]
                 /\ r = [q EXCEPT !.front = (@ + n) % VqueueWord, !.len = @ - n]
    <3> DEFINE n == Min({q.len, k})
    <3>1. n \in 0..q.len
      <4>1. q.len \in Int /\ k \in Int /\ k >= 1
        BY <1>1
      <4>2. n = IF q.len <= k THEN q.len ELSE k
        BY <4>1, LeastOfTwo
      <4> QED BY <1>1, <4>1, <4>2
    <3>2. /\ vqueue_moved' = [src |-> <<>>, dest |-> VqueueFront(q, n)]
          /\ r = [q EXCEPT !.front = (@ + n) % VqueueWord, !.len = @ - n]
      BY <2>2 DEF VqueueDequeueSome
    <3> HIDE DEF n
    <3> QED BY <3>1, <3>2
  <2> QED BY <2>1, <2>2
<1>3. PICK n \in 0..q.len :
        /\ vqueue_moved' = [src |-> <<>>, dest |-> VqueueFront(q, n)]
        /\ \/ r = [q EXCEPT !.front = vqueue_wrap(q, @ + n), !.len = @ - n]
           \/ r = [q EXCEPT !.front = (@ + n) % VqueueWord, !.len = @ - n]
  BY <1>2
<1>4. q.front + n \in Nat /\ q.len - n \in Nat
  BY <1>1
<1>5. /\ r.elems = q.elems /\ r.cap = q.cap /\ r.back = q.back /\ r.len = q.len - n
      /\ r.front = vqueue_wrap(q, q.front + n) \/ r.front = (q.front + n) % VqueueWord
  BY <1>1, <1>3 DEF VqueueStates
<1>6. r.front \in Nat /\ r.front % q.cap = (q.front + n) % q.cap
  BY <1>4, <1>5, VqueueWraps
<1>7. r \in VqueueStates
  <2>1. vqueue_wrap(q, q.front + n) \in Nat /\ (q.front + n) % VqueueWord \in Nat
    BY <1>4, VqueueWraps
  <2> QED BY <1>1, <1>3, <1>4, <2>1 DEF VqueueStates
<1> HIDE DEF r
<1> QED BY <1>3, <1>5, <1>6, <1>7, VqueueTakeKeeps DEF r

(* For every size_t, every capacity that divides it, and every batch: a    *)
(* call appends what it took and lets go of no more than has to make room, *)
(* or gives the oldest elements, and the back is the newest, also where    *)
(* front and back went on beyond the end, and round a size_t               *)
(* (vqueue_enqueue 124-153 to vqueue_dequeue_some 254, back 287-320).      *)
THEOREM VqueueKeepsPromise == VqueueSpec => VqueuePromise
<1>1. VqueueInit => VqueueInv
  BY DEF VqueueInit, VqueueInv
<1>2. VqueueInv /\ [VqueueNext]_vqueue_vars
        => VqueueInv' /\ (vqueue # NULL /\ vqueue' # NULL /\ ~(UNCHANGED vqueue_vars)
                            => VqueueKept(vqueue, vqueue', vqueue_moved'))
  <2> SUFFICES ASSUME VqueueInv, [VqueueNext]_vqueue_vars
               PROVE  VqueueInv' /\ (vqueue # NULL /\ vqueue' # NULL /\ ~(UNCHANGED vqueue_vars)
                                       => VqueueKept(vqueue, vqueue', vqueue_moved'))
    OBVIOUS
  <2>1. CASE VqueueCreate
    <3>1. PICK cap \in VqueueCaps : vqueue = NULL /\ vqueue' = vqueue_init(cap)
      BY <2>1 DEF VqueueCreate
    <3> DEFINE none == [i \in 0..cap-1 |-> CHOOSE e \in VqueueElems : TRUE]
    <3>2. none \in [0..cap-1 -> VqueueAny] /\ cap \in Nat
      BY VqueueAssumption DEF VqueueAny
    <3>3. vqueue' = [elems |-> none, front |-> 0, back |-> 0, cap |-> cap, len |-> 0]
      BY <3>1 DEF vqueue_init
    <3> HIDE DEF none
    <3>4. vqueue' \in VqueueStates
      BY <3>2, <3>3 DEF VqueueStates
    <3>5. VqueueRing(vqueue')
      BY <3>2, <3>3, <3>4 DEF VqueueRing
    <3> QED BY <3>1, <3>5 DEF VqueueInv
  <2>2. CASE VqueueDestroy
    BY <2>2 DEF VqueueDestroy, VqueueInv
  <2>3. CASE UNCHANGED vqueue_vars
    BY <2>3 DEF vqueue_vars, VqueueInv
  <2>4. CASE VqueueDequeue \/ \E k \in 1..VqueueBatch : VqueueDequeueSome(k)
    <3>1. VqueueRing(vqueue)
      BY <2>4 DEF VqueueInv, VqueueDequeue, VqueueDequeueSome
    <3> QED BY <2>4, <3>1, VqueueDequeueKeeps DEF VqueueInv
  <2>5. ASSUME NEW overwrite \in BOOLEAN, NEW e \in VqueueElems, VqueueEnqueue(e, overwrite)
        PROVE  VqueueRing(vqueue') /\ VqueueKept(vqueue, vqueue', vqueue_moved')
    <3>1. VqueueRing(vqueue)
      BY <2>5 DEF VqueueInv, VqueueEnqueue
    <3> QED BY <2>5, <3>1, VqueueEnqueueKeeps
  <2>6. ASSUME NEW overwrite \in BOOLEAN, NEW n \in 1..VqueueBatch,
               NEW src \in [1..n -> VqueueElems], VqueueEnqueueSome(src, overwrite)
        PROVE  VqueueRing(vqueue') /\ VqueueKept(vqueue, vqueue', vqueue_moved')
    <3>1. VqueueRing(vqueue)
      BY <2>6 DEF VqueueInv, VqueueEnqueueSome
    <3>2. n \in Nat \ {0}
      BY VqueueAssumption
    <3> QED BY <2>6, <3>1, <3>2, VqueueEnqueueSomeKeeps
  <2> QED BY <2>1, <2>2, <2>3, <2>4, <2>5, <2>6 DEF VqueueNext, VqueueInv
<1>3. VqueueKept(vqueue, vqueue', vqueue_moved') /\ vqueue # NULL /\ vqueue' # NULL
        => /\ vqueue_moved'.dest \o VqueueContents'
                = IF vqueue_moved'.src = <<>> THEN VqueueContents
                  ELSE VqueueNewest(vqueue.cap, VqueueContents \o vqueue_moved'.src)
           /\ vqueue'.len > 0 => vqueue_back_direct(vqueue') = Last(VqueueContents')
  BY DEF VqueueKept, VqueueContents
<1>4. VqueueInv /\ [VqueueNext]_vqueue_vars =>
        VqueueInv' /\
        [vqueue # NULL /\ vqueue' # NULL =>
           /\ vqueue_moved'.dest \o VqueueContents'
                = IF vqueue_moved'.src = <<>> THEN VqueueContents
                  ELSE VqueueNewest(vqueue.cap, VqueueContents \o vqueue_moved'.src)
           /\ vqueue'.len > 0 => vqueue_back_direct(vqueue') = Last(VqueueContents')]_vqueue_vars
  BY <1>2, <1>3
<1> QED BY <1>1, <1>4, PTL DEF VqueueSpec, VqueuePromise

-----------------------------------------------------------------------------
(* Loops.                                                                  *)

(* What holds at 0, and at n + 1 if it holds at n, holds of every number.  *)
LEMMA SetInduction ==
  ASSUME NEW S, 0 \in S, \A n \in S \cap Nat : n + 1 \in S
  PROVE  Nat \subseteq S
<1> DEFINE R == {ss \in Nat \X Nat : ss[1] < ss[2]}
           T == Nat \ S
<1> SUFFICES ASSUME T # {} PROVE FALSE
  OBVIOUS
<1>1. IsWellFoundedOn(R, Nat)
  BY NatLessThanWellFounded DEF OpToRel
<1>2. \A x, y \in Nat : x < y => <<x, y>> \in R
  OBVIOUS
<1> HIDE DEF R
<1>3. PICK m \in T : \A y \in T : ~(<<y, m>> \in R)
  <2>1. T \subseteq Nat
    OBVIOUS
  <2> HIDE DEF T
  <2> QED BY <1>1, <2>1, WFMin
<1>4. m \in Nat /\ m # 0 /\ m - 1 \in Nat /\ m - 1 < m
  OBVIOUS
<1>5. m - 1 \in T
  BY <1>4
<1> QED BY <1>2, <1>3, <1>4, <1>5

(* The loops of the model are runs of their steps.                         *)
LEMMA VdllMoveRun ==
  ASSUME NEW d, NEW num \in Nat, NEW link, NEW by
  PROVE  \E run : /\ run[0] = d
                  /\ \A i \in 1..num : run[i] = VdllStep(run[i - 1], link, by)
                  /\ VdllMove(d, link, by, num) = run[num]
<1> DEFINE S == {n \in Nat : \E r :
                   r = [i \in 0..n |-> IF i = 0 THEN d ELSE VdllStep(r[i - 1], link, by)]}
<1>1. 0 \in S
  <2> DEFINE r == [i \in 0..0 |-> d]
  <2>1. r = [i \in 0..0 |-> IF i = 0 THEN d ELSE VdllStep(r[i - 1], link, by)]
    OBVIOUS
  <2> QED BY <2>1
<1>2. ASSUME NEW n \in S \cap Nat PROVE n + 1 \in S
  <2>1. PICK r : r = [i \in 0..n |-> IF i = 0 THEN d ELSE VdllStep(r[i - 1], link, by)]
    OBVIOUS
  <2> DEFINE t ==
               [i \in 0..n + 1 |-> IF i = n + 1 THEN VdllStep(r[n], link, by) ELSE r[i]]
  <2>2. ASSUME NEW i \in 0..n + 1
        PROVE  t[i] = IF i = 0 THEN d ELSE VdllStep(t[i - 1], link, by)
    <3>1. CASE i = n + 1
      BY <3>1
    <3>2. CASE i # n + 1
      <4>1. i \in 0..n /\ t[i] = r[i]
        BY <3>2
      <4>2. i # 0 => i - 1 \in 0..n /\ t[i - 1] = r[i - 1]
        BY <3>2
      <4>3. r[i] = IF i = 0 THEN d ELSE VdllStep(r[i - 1], link, by)
        BY <2>1, <4>1
      <4> QED BY <4>1, <4>2, <4>3
    <3> QED BY <3>1, <3>2
  <2>3. t = [i \in 0..n + 1 |-> t[i]]
    OBVIOUS
  <2> HIDE DEF t
  <2>4. t = [i \in 0..n + 1 |-> IF i = 0 THEN d ELSE VdllStep(t[i - 1], link, by)]
    BY <2>2, <2>3
  <2> QED BY <2>4
<1> DEFINE run ==
             CHOOSE r : r = [i \in 0..num |-> IF i = 0 THEN d ELSE VdllStep(r[i - 1], link, by)]
<1>3. run = [i \in 0..num |-> IF i = 0 THEN d ELSE VdllStep(run[i - 1], link, by)]
  <2>1. num \in S
    <3> HIDE DEF S
    <3> QED BY <1>1, <1>2, SetInduction
  <2> QED BY <2>1
<1>4. VdllMove(d, link, by, num) = run[num]
  BY DEF VdllMove
<1> HIDE DEF run
<1>5. run[0] = d /\ \A i \in 1..num : run[i] = VdllStep(run[i - 1], link, by)
  BY <1>3
<1> QED BY <1>4, <1>5

LEMMA VdllLinksRun ==
  ASSUME NEW d, NEW num \in Nat, NEW after
  PROVE  \E run : /\ run[0] = d
                  /\ \A i \in 1..num : run[i] = VdllLinkNew(run[i - 1], after)
                  /\ VdllLinks(d, num, after) = run[num]
<1> DEFINE S == {n \in Nat : \E r :
                   r = [i \in 0..n |-> IF i = 0 THEN d ELSE VdllLinkNew(r[i - 1], after)]}
<1>1. 0 \in S
  <2> DEFINE r == [i \in 0..0 |-> d]
  <2>1. r = [i \in 0..0 |-> IF i = 0 THEN d ELSE VdllLinkNew(r[i - 1], after)]
    OBVIOUS
  <2> QED BY <2>1
<1>2. ASSUME NEW n \in S \cap Nat PROVE n + 1 \in S
  <2>1. PICK r : r = [i \in 0..n |-> IF i = 0 THEN d ELSE VdllLinkNew(r[i - 1], after)]
    OBVIOUS
  <2> DEFINE t ==
               [i \in 0..n + 1 |-> IF i = n + 1 THEN VdllLinkNew(r[n], after) ELSE r[i]]
  <2>2. ASSUME NEW i \in 0..n + 1
        PROVE  t[i] = IF i = 0 THEN d ELSE VdllLinkNew(t[i - 1], after)
    <3>1. CASE i = n + 1
      BY <3>1
    <3>2. CASE i # n + 1
      <4>1. i \in 0..n /\ t[i] = r[i]
        BY <3>2
      <4>2. i # 0 => i - 1 \in 0..n /\ t[i - 1] = r[i - 1]
        BY <3>2
      <4>3. r[i] = IF i = 0 THEN d ELSE VdllLinkNew(r[i - 1], after)
        BY <2>1, <4>1
      <4> QED BY <4>1, <4>2, <4>3
    <3> QED BY <3>1, <3>2
  <2>3. t = [i \in 0..n + 1 |-> t[i]]
    OBVIOUS
  <2> HIDE DEF t
  <2>4. t = [i \in 0..n + 1 |-> IF i = 0 THEN d ELSE VdllLinkNew(t[i - 1], after)]
    BY <2>2, <2>3
  <2> QED BY <2>4
<1> DEFINE run ==
             CHOOSE r : r = [i \in 0..num |-> IF i = 0 THEN d ELSE VdllLinkNew(r[i - 1], after)]
<1>3. run = [i \in 0..num |-> IF i = 0 THEN d ELSE VdllLinkNew(run[i - 1], after)]
  <2>1. num \in S
    <3> HIDE DEF S
    <3> QED BY <1>1, <1>2, SetInduction
  <2> QED BY <2>1
<1>4. VdllLinks(d, num, after) = run[num]
  BY DEF VdllLinks
<1> HIDE DEF run
<1>5. run[0] = d /\ \A i \in 1..num : run[i] = VdllLinkNew(run[i - 1], after)
  BY <1>3
<1> QED BY <1>4, <1>5

LEMMA VdllUnlinksRun ==
  ASSUME NEW d, NEW num \in Nat
  PROVE  \E run : /\ run[0] = d
                  /\ \A i \in 1..num : run[i] = VdllUnlink(run[i - 1])
                  /\ VdllUnlinks(d, num) = run[num]
<1> DEFINE S == {n \in Nat : \E r :
                   r = [i \in 0..n |-> IF i = 0 THEN d ELSE VdllUnlink(r[i - 1])]}
<1>1. 0 \in S
  <2> DEFINE r == [i \in 0..0 |-> d]
  <2>1. r = [i \in 0..0 |-> IF i = 0 THEN d ELSE VdllUnlink(r[i - 1])]
    OBVIOUS
  <2> QED BY <2>1
<1>2. ASSUME NEW n \in S \cap Nat PROVE n + 1 \in S
  <2>1. PICK r : r = [i \in 0..n |-> IF i = 0 THEN d ELSE VdllUnlink(r[i - 1])]
    OBVIOUS
  <2> DEFINE t ==
               [i \in 0..n + 1 |-> IF i = n + 1 THEN VdllUnlink(r[n]) ELSE r[i]]
  <2>2. ASSUME NEW i \in 0..n + 1
        PROVE  t[i] = IF i = 0 THEN d ELSE VdllUnlink(t[i - 1])
    <3>1. CASE i = n + 1
      BY <3>1
    <3>2. CASE i # n + 1
      <4>1. i \in 0..n /\ t[i] = r[i]
        BY <3>2
      <4>2. i # 0 => i - 1 \in 0..n /\ t[i - 1] = r[i - 1]
        BY <3>2
      <4>3. r[i] = IF i = 0 THEN d ELSE VdllUnlink(r[i - 1])
        BY <2>1, <4>1
      <4> QED BY <4>1, <4>2, <4>3
    <3> QED BY <3>1, <3>2
  <2>3. t = [i \in 0..n + 1 |-> t[i]]
    OBVIOUS
  <2> HIDE DEF t
  <2>4. t = [i \in 0..n + 1 |-> IF i = 0 THEN d ELSE VdllUnlink(t[i - 1])]
    BY <2>2, <2>3
  <2> QED BY <2>4
<1> DEFINE run ==
             CHOOSE r : r = [i \in 0..num |-> IF i = 0 THEN d ELSE VdllUnlink(r[i - 1])]
<1>3. run = [i \in 0..num |-> IF i = 0 THEN d ELSE VdllUnlink(run[i - 1])]
  <2>1. num \in S
    <3> HIDE DEF S
    <3> QED BY <1>1, <1>2, SetInduction
  <2> QED BY <2>1
<1>4. VdllUnlinks(d, num) = run[num]
  BY DEF VdllUnlinks
<1> HIDE DEF run
<1>5. run[0] = d /\ \A i \in 1..num : run[i] = VdllUnlink(run[i - 1])
  BY <1>3
<1> QED BY <1>4, <1>5

-----------------------------------------------------------------------------
(* The links of a list.                                                    *)

(* The i-th of the n nodes of s; beside them there is NULL.                *)
VdllNode(s, n, i) == IF i \in 1..n THEN s[i] ELSE NULL

(* The links next and prev lead through the n nodes of s, and nowhere else.*)
VdllChain(s, n, next, prev) ==
  /\ n \in Nat /\ s \in [1..n -> VdllNodes]
  /\ \A i, j \in 1..n : s[i] = s[j] => i = j
  /\ DOMAIN next = {s[i] : i \in 1..n} /\ DOMAIN prev = {s[i] : i \in 1..n}
  /\ \A i \in 1..n : next[s[i]] = VdllNode(s, n, i + 1) /\ prev[s[i]] = VdllNode(s, n, i - 1)

(* s with a node put in after the first k, and with the k-th taken out.    *)
VdllPut(s, n, k, new) ==
  [i \in 1..n + 1 |-> IF i <= k THEN s[i] ELSE IF i = k + 1 THEN new ELSE s[i - 1]]
VdllTaken(s, n, k) == [i \in 1..n - 1 |-> IF i < k THEN s[i] ELSE s[i + 1]]

(* What the nodes of these are.                                            *)
VdllIsPut(t, s, n, k, new) ==
  /\ t \in [1..n + 1 -> VdllNodes]
  /\ k + 1 \in 1..n + 1 /\ t[k + 1] = new
  /\ \A i \in 1..k : i \in 1..n + 1 /\ t[i] = s[i]
  /\ \A i \in k + 1..n : i + 1 \in 1..n + 1 /\ t[i + 1] = s[i]

VdllIsTaken(t, s, n, k) ==
  /\ n - 1 \in Nat /\ t \in [1..n - 1 -> VdllNodes]
  /\ \A i \in 1..k - 1 : i \in 1..n - 1 /\ i \in 1..n /\ t[i] = s[i]
  /\ \A i \in k..n - 1 : i \in 1..n - 1 /\ i + 1 \in 1..n /\ t[i] = s[i + 1]

LEMMA VdllPutIs ==
  ASSUME NEW n \in Nat, NEW s \in [1..n -> VdllNodes], NEW k \in 0..n, NEW new \in VdllNodes
  PROVE  VdllIsPut(VdllPut(s, n, k, new), s, n, k, new)
<1>1. ASSUME NEW i \in 1..n + 1
      PROVE  (IF i <= k THEN s[i] ELSE IF i = k + 1 THEN new ELSE s[i - 1]) \in VdllNodes
  <2>1. CASE i <= k
    BY <2>1
  <2>2. CASE i > k + 1
    <3>1. i - 1 \in 1..n
      BY <2>2
    <3> QED BY <2>2, <3>1
  <2> QED BY <2>1, <2>2
<1>2. VdllPut(s, n, k, new) \in [1..n + 1 -> VdllNodes]
  BY <1>1 DEF VdllPut
<1>3. k + 1 \in 1..n + 1 /\ VdllPut(s, n, k, new)[k + 1] = new
  BY DEF VdllPut
<1>4. \A i \in 1..k : i \in 1..n + 1 /\ VdllPut(s, n, k, new)[i] = s[i]
  BY DEF VdllPut
<1>5. \A i \in k + 1..n : i + 1 \in 1..n + 1 /\ VdllPut(s, n, k, new)[i + 1] = s[i]
  <2> TAKE i \in k + 1..n
  <2>1. i + 1 \in 1..n + 1 /\ ~(i + 1 <= k) /\ i + 1 # k + 1 /\ (i + 1) - 1 = i
    OBVIOUS
  <2> QED BY <2>1 DEF VdllPut
<1> QED BY <1>2, <1>3, <1>4, <1>5 DEF VdllIsPut

LEMMA VdllTakenIs ==
  ASSUME NEW n \in Nat, NEW s \in [1..n -> VdllNodes], NEW k \in 1..n
  PROVE  VdllIsTaken(VdllTaken(s, n, k), s, n, k)
<1>1. ASSUME NEW i \in 1..n - 1
      PROVE  i \in 1..n /\ i + 1 \in 1..n
  OBVIOUS
<1>2. VdllTaken(s, n, k) \in [1..n - 1 -> VdllNodes]
  BY <1>1 DEF VdllTaken
<1>3. \A i \in 1..k - 1 : i \in 1..n - 1 /\ i \in 1..n /\ VdllTaken(s, n, k)[i] = s[i]
  BY DEF VdllTaken
<1>4. \A i \in k..n - 1 : i \in 1..n - 1 /\ i + 1 \in 1..n
                          /\ VdllTaken(s, n, k)[i] = s[i + 1]
  BY DEF VdllTaken
<1>5. n - 1 \in Nat
  OBVIOUS
<1> QED BY <1>2, <1>3, <1>4, <1>5 DEF VdllIsTaken

(* A node that is linked in between the k-th and the one after it.         *)
LEMMA VdllChainPut ==
  ASSUME NEW s, NEW n, NEW next, NEW prev, VdllChain(s, n, next, prev),
         NEW k \in 0..n, NEW new \in VdllNodes \ DOMAIN next, NULL \notin VdllNodes,
         NEW next2, NEW prev2,
         next2 = [x \in {new} \cup DOMAIN next |->
                    IF x = new THEN VdllNode(s, n, k + 1)
                    ELSE IF x = VdllNode(s, n, k) THEN new ELSE next[x]],
         prev2 = [x \in {new} \cup DOMAIN next |->
                    IF x = new THEN VdllNode(s, n, k)
                    ELSE IF x = VdllNode(s, n, k + 1) THEN new ELSE prev[x]]
  PROVE  VdllChain(VdllPut(s, n, k, new), n + 1, next2, prev2)
<1> DEFINE t == VdllPut(s, n, k, new)
<1>1. /\ n \in Nat /\ s \in [1..n -> VdllNodes] /\ new \in VdllNodes
      /\ \A i, j \in 1..n : s[i] = s[j] => i = j
      /\ DOMAIN next = {s[i] : i \in 1..n} /\ DOMAIN prev = {s[i] : i \in 1..n}
      /\ \A i \in 1..n : next[s[i]] = VdllNode(s, n, i + 1) /\ prev[s[i]] = VdllNode(s, n, i - 1)
  BY DEF VdllChain
<1>2. /\ t \in [1..n + 1 -> VdllNodes]
      /\ k + 1 \in 1..n + 1 /\ t[k + 1] = new
      /\ \A i \in 1..k : i \in 1..n + 1 /\ t[i] = s[i]
      /\ \A i \in k + 1..n : i + 1 \in 1..n + 1 /\ t[i + 1] = s[i]
  <2>1. n \in Nat /\ s \in [1..n -> VdllNodes] /\ k \in 0..n /\ new \in VdllNodes
    BY <1>1
  <2>2. VdllIsPut(t, s, n, k, new)
    BY <2>1, VdllPutIs
  <2> QED BY <2>2 DEF VdllIsPut
<1> HIDE DEF t
(* Where a node of t was in s.                                             *)
<1>3. \A i \in 1..n + 1 : i = k + 1 \/ (i \in 1..k /\ i \in 1..n)
                          \/ (i - 1 \in k + 1..n /\ i - 1 \in 1..n /\ (i - 1) + 1 = i)
  BY <1>1
<1>4. \A i \in 1..n + 1 : \/ i = k + 1 /\ t[i] = new
                          \/ i \in 1..k /\ i \in 1..n /\ t[i] = s[i]
                          \/ i - 1 \in k + 1..n /\ i - 1 \in 1..n /\ t[i] = s[i - 1]
  BY <1>2, <1>3
<1>5. \A i \in 1..n : s[i] # new /\ s[i] \in DOMAIN next /\ s[i] \in VdllNodes
  <2> TAKE i \in 1..n
  <2>1. s[i] \in DOMAIN next
    BY <1>1, Zenon
  <2>2. s[i] \in VdllNodes
    BY <1>1, Zenon
  <2> QED BY <2>1, <2>2, Zenon
<1>6. \A i, j \in 1..n + 1 : t[i] = t[j] => i = j
  <2> TAKE i, j \in 1..n + 1
  <2> SUFFICES ASSUME t[i] = t[j] PROVE i = j
    OBVIOUS
  <2>1. i = k + 1 => j = k + 1
    BY <1>4, <1>5
  <2>2. j = k + 1 => i = k + 1
    BY <1>4, <1>5
  <2>3. CASE i \in 1..k /\ j \in 1..k
    BY <1>1, <1>2, <2>3
  <2>4. CASE i - 1 \in k + 1..n /\ j - 1 \in k + 1..n
    BY <1>1, <1>4, <2>4
  <2>5. ~(i \in 1..k /\ j - 1 \in k + 1..n)
    BY <1>1, <1>4
  <2>6. ~(j \in 1..k /\ i - 1 \in k + 1..n)
    BY <1>1, <1>4
  <2> QED BY <1>3, <2>1, <2>2, <2>3, <2>4, <2>5, <2>6
<1>7. {new} \cup DOMAIN next = {t[i] : i \in 1..n + 1}
  <2>1. ASSUME NEW i \in 1..n PROVE \E j \in 1..n + 1 : t[j] = s[i]
    <3>1. i \in 1..k \/ i \in k + 1..n
      BY <1>1
    <3> QED BY <1>2, <3>1
  <2>2. ASSUME NEW j \in 1..n + 1 PROVE t[j] \in {new} \cup DOMAIN next
    BY <1>4, <1>5
  <2> QED BY <1>1, <1>2, <2>1, <2>2
<1>8. DOMAIN next2 = {t[i] : i \in 1..n + 1} /\ DOMAIN prev2 = {t[i] : i \in 1..n + 1}
  BY <1>7
<1>9. next2[new] = VdllNode(s, n, k + 1) /\ prev2[new] = VdllNode(s, n, k)
  OBVIOUS
<1>10. \A i \in 1..n :
         /\ next2[s[i]] = IF i = k THEN new ELSE VdllNode(s, n, i + 1)
         /\ prev2[s[i]] = IF i = k + 1 THEN new ELSE VdllNode(s, n, i - 1)
  <2> TAKE i \in 1..n
  <2>1. s[i] = VdllNode(s, n, k) <=> i = k
    BY <1>1, <1>5 DEF VdllNode
  <2>2. s[i] = VdllNode(s, n, k + 1) <=> i = k + 1
    BY <1>1, <1>5 DEF VdllNode
  <2>3. next2[s[i]] = IF s[i] = VdllNode(s, n, k) THEN new ELSE next[s[i]]
    BY <1>5
  <2>4. prev2[s[i]] = IF s[i] = VdllNode(s, n, k + 1) THEN new ELSE prev[s[i]]
    BY <1>5
  <2> QED BY <1>1, <2>1, <2>2, <2>3, <2>4
(* The nodes of t beside the others.                                       *)
<1>11. \A i \in 0..k : VdllNode(t, n + 1, i) = VdllNode(s, n, i)
  BY <1>1, <1>2 DEF VdllNode
<1>12. \A i \in k + 1..n + 1 : VdllNode(t, n + 1, i + 1) = VdllNode(s, n, i)
  BY <1>1, <1>2 DEF VdllNode
<1>13. VdllNode(t, n + 1, k + 1) = new
  BY <1>2 DEF VdllNode
<1>14. ASSUME NEW i \in 1..n + 1
       PROVE  next2[t[i]] = VdllNode(t, n + 1, i + 1) /\ prev2[t[i]] = VdllNode(t, n + 1, i - 1)
  <2>1. CASE i = k + 1
    <3>1. i \in k + 1..n + 1 /\ i - 1 = k /\ k \in 0..k
      BY <1>1, <2>1
    <3> QED BY <1>2, <1>9, <1>11, <1>12, <2>1, <3>1
  <2>2. CASE i \in 1..k
    <3>1. i \in 1..n /\ i # k + 1 /\ i - 1 \in 0..k /\ (i = k \/ i + 1 \in 0..k)
      BY <1>1, <2>2
    <3>2. t[i] = s[i]
      BY <1>2, <2>2
    <3>3. next2[t[i]] = VdllNode(t, n + 1, i + 1)
      BY <1>10, <1>11, <1>13, <3>1, <3>2
    <3>4. prev2[t[i]] = VdllNode(t, n + 1, i - 1)
      BY <1>10, <1>11, <3>1, <3>2
    <3> QED BY <3>3, <3>4
  <2>3. CASE i - 1 \in k + 1..n
    <3> DEFINE j == i - 1
    <3>1. j \in 1..n /\ j # k /\ j + 1 \in k + 1..n + 1 /\ (j = k + 1 \/ j - 1 \in k + 1..n + 1)
          /\ i = j + 1 /\ (j - 1) + 1 = j
      BY <1>1, <2>3
    <3>2. t[i] = s[j]
      BY <1>2, <2>3, <3>1
    <3> HIDE DEF j
    <3>3. next2[t[i]] = VdllNode(t, n + 1, i + 1)
      BY <1>10, <1>12, <3>1, <3>2
    <3>4. prev2[t[i]] = VdllNode(t, n + 1, j)
      BY <1>10, <1>12, <1>13, <3>1, <3>2
    <3> QED BY <3>3, <3>4 DEF j
  <2> QED BY <1>3, <2>1, <2>2, <2>3
<1>15. n + 1 \in Nat
  BY <1>1
<1> QED BY <1>2, <1>6, <1>8, <1>14, <1>15 DEF VdllChain, t

(* The k-th node is linked out.                                            *)
LEMMA VdllChainTake ==
  ASSUME NEW s, NEW n, NEW next, NEW prev, VdllChain(s, n, next, prev),
         NEW k \in 1..n, NULL \notin VdllNodes, NEW next2, NEW prev2,
         next2 = [x \in DOMAIN next \ {s[k]} |->
                    IF x = VdllNode(s, n, k - 1) THEN VdllNode(s, n, k + 1) ELSE next[x]],
         prev2 = [x \in DOMAIN next \ {s[k]} |->
                    IF x = VdllNode(s, n, k + 1) THEN VdllNode(s, n, k - 1) ELSE prev[x]]
  PROVE  VdllChain(VdllTaken(s, n, k), n - 1, next2, prev2)
<1> DEFINE t == VdllTaken(s, n, k)
<1>1. /\ n \in Nat /\ s \in [1..n -> VdllNodes]
      /\ \A i, j \in 1..n : s[i] = s[j] => i = j
      /\ DOMAIN next = {s[i] : i \in 1..n} /\ DOMAIN prev = {s[i] : i \in 1..n}
      /\ \A i \in 1..n : next[s[i]] = VdllNode(s, n, i + 1) /\ prev[s[i]] = VdllNode(s, n, i - 1)
  BY DEF VdllChain
<1>2. /\ n - 1 \in Nat /\ t \in [1..n - 1 -> VdllNodes]
      /\ \A i \in 1..k - 1 : i \in 1..n - 1 /\ i \in 1..n /\ t[i] = s[i]
      /\ \A i \in k..n - 1 : i \in 1..n - 1 /\ i + 1 \in 1..n /\ t[i] = s[i + 1]
  <2>1. VdllIsTaken(t, s, n, k)
    BY <1>1, VdllTakenIs
  <2> QED BY <2>1 DEF VdllIsTaken
<1> HIDE DEF t
<1>3. \A i \in 1..n - 1 : i \in 1..k - 1 \/ i \in k..n - 1
  BY <1>1
<1>4. \A i, j \in 1..n - 1 : t[i] = t[j] => i = j
  <2> TAKE i, j \in 1..n - 1
  <2> SUFFICES ASSUME t[i] = t[j] PROVE i = j
    OBVIOUS
  <2>1. CASE i \in 1..k - 1 /\ j \in 1..k - 1
    BY <1>1, <1>2, <2>1
  <2>2. CASE i \in k..n - 1 /\ j \in k..n - 1
    <3>1. i + 1 = j + 1
      BY <1>1, <1>2, <2>2
    <3> QED BY <3>1
  <2>3. ~(i \in 1..k - 1 /\ j \in k..n - 1)
    BY <1>1, <1>2
  <2>4. ~(j \in 1..k - 1 /\ i \in k..n - 1)
    BY <1>1, <1>2
  <2> QED BY <1>3, <2>1, <2>2, <2>3, <2>4
<1>5. DOMAIN next \ {s[k]} = {t[i] : i \in 1..n - 1}
  <2>1. ASSUME NEW i \in 1..n, i # k PROVE \E j \in 1..n - 1 : t[j] = s[i]
    <3>1. CASE i \in 1..k - 1
      BY <1>2, <3>1
    <3>2. CASE i - 1 \in k..n - 1
      <4>1. (i - 1) + 1 = i
        OBVIOUS
      <4> QED BY <1>2, <3>2, <4>1
    <3>3. i \in 1..k - 1 \/ i - 1 \in k..n - 1
      BY <1>1, <2>1
    <3> QED BY <3>1, <3>2, <3>3
  <2>2. ASSUME NEW j \in 1..n - 1 PROVE t[j] \in DOMAIN next \ {s[k]}
    <3>1. CASE j \in 1..k - 1
      <4>1. j \in 1..n /\ t[j] = s[j] /\ j # k
        BY <1>1, <1>2, <3>1
      <4> QED BY <1>1, <4>1
    <3>2. CASE j \in k..n - 1
      <4>1. j + 1 \in 1..n /\ t[j] = s[j + 1] /\ j + 1 # k
        BY <1>1, <1>2, <3>2
      <4> QED BY <1>1, <4>1
    <3> QED BY <1>3, <3>1, <3>2
  <2>3. \A x \in DOMAIN next \ {s[k]} : \E i \in 1..n : i # k /\ x = s[i]
    BY <1>1
  <2> QED BY <2>1, <2>2, <2>3
<1>6. DOMAIN next2 = {t[i] : i \in 1..n - 1} /\ DOMAIN prev2 = {t[i] : i \in 1..n - 1}
  BY <1>5
<1>7. \A i \in 1..n : i # k =>
        /\ next2[s[i]] = IF i = k - 1 THEN VdllNode(s, n, k + 1) ELSE VdllNode(s, n, i + 1)
        /\ prev2[s[i]] = IF i = k + 1 THEN VdllNode(s, n, k - 1) ELSE VdllNode(s, n, i - 1)
  <2> TAKE i \in 1..n
  <2> SUFFICES ASSUME i # k
               PROVE  /\ next2[s[i]] = IF i = k - 1 THEN VdllNode(s, n, k + 1)
                                       ELSE VdllNode(s, n, i + 1)
                      /\ prev2[s[i]] = IF i = k + 1 THEN VdllNode(s, n, k - 1)
                                       ELSE VdllNode(s, n, i - 1)
    OBVIOUS
  <2>1. s[i] = VdllNode(s, n, k - 1) <=> i = k - 1
    BY <1>1 DEF VdllNode
  <2>2. s[i] = VdllNode(s, n, k + 1) <=> i = k + 1
    BY <1>1 DEF VdllNode
  <2>3. s[i] \in DOMAIN next \ {s[k]}
    BY <1>1
  <2>4. next2[s[i]] = IF s[i] = VdllNode(s, n, k - 1) THEN VdllNode(s, n, k + 1) ELSE next[s[i]]
    BY <2>3
  <2>5. prev2[s[i]] = IF s[i] = VdllNode(s, n, k + 1) THEN VdllNode(s, n, k - 1) ELSE prev[s[i]]
    BY <2>3
  <2> QED BY <1>1, <2>1, <2>2, <2>4, <2>5
<1>8. \A i \in 0..k - 1 : VdllNode(t, n - 1, i) = VdllNode(s, n, i)
  BY <1>1, <1>2 DEF VdllNode
<1>9. \A i \in k..n : VdllNode(t, n - 1, i) = VdllNode(s, n, i + 1)
  BY <1>1, <1>2 DEF VdllNode
<1>10. ASSUME NEW i \in 1..n - 1
       PROVE  next2[t[i]] = VdllNode(t, n - 1, i + 1) /\ prev2[t[i]] = VdllNode(t, n - 1, i - 1)
  <2>1. CASE i \in 1..k - 1
    <3>1. /\ i \in 1..n /\ i # k /\ i # k + 1 /\ i - 1 \in 0..k - 1 /\ k \in k..n
          /\ i = k - 1 => i + 1 = k
          /\ i # k - 1 => i + 1 \in 0..k - 1
      BY <1>1, <2>1
    <3>2. t[i] = s[i]
      BY <1>2, <2>1
    <3>3. next2[t[i]] = VdllNode(t, n - 1, i + 1)
      BY <1>7, <1>8, <1>9, <3>1, <3>2
    <3>4. prev2[t[i]] = VdllNode(t, n - 1, i - 1)
      BY <1>7, <1>8, <3>1, <3>2
    <3> QED BY <3>3, <3>4
  <2>2. CASE i \in k..n - 1
    <3> DEFINE j == i + 1
    <3>1. /\ j \in 1..n /\ j # k /\ j # k - 1 /\ i + 1 \in k..n /\ j - 1 = i
          /\ j = k + 1 => i = k /\ i - 1 \in 0..k - 1
          /\ j # k + 1 => i - 1 \in k..n /\ (i - 1) + 1 = i
      BY <1>1, <2>2
    <3>2. t[i] = s[j]
      BY <1>2, <2>2
    <3>3. next2[t[i]] = VdllNode(t, n - 1, i + 1)
      <4> HIDE DEF j
      <4>1. next2[s[j]] = VdllNode(s, n, j + 1)
        BY <1>7, <3>1
      <4>2. VdllNode(t, n - 1, i + 1) = VdllNode(s, n, j + 1)
        BY <1>9, <3>1 DEF j
      <4> QED BY <3>2, <4>1, <4>2
    <3>4. prev2[t[i]] = VdllNode(t, n - 1, i - 1)
      <4> HIDE DEF j
      <4>1. CASE j = k + 1
        <5>1. prev2[s[j]] = VdllNode(s, n, k - 1)
          BY <1>7, <3>1, <4>1
        <5> QED BY <1>8, <3>1, <3>2, <4>1, <5>1
      <4>2. CASE j # k + 1
        <5>1. prev2[s[j]] = VdllNode(s, n, i)
          BY <1>7, <3>1, <4>2
        <5> QED BY <1>9, <3>1, <3>2, <4>2, <5>1
      <4> QED BY <4>1, <4>2
    <3> QED BY <3>3, <3>4
  <2> QED BY <1>3, <2>1, <2>2
<1> QED BY <1>2, <1>4, <1>6, <1>10 DEF VdllChain, t

-----------------------------------------------------------------------------
(* A list in its memory.                                                   *)

VdllShape(d) == DOMAIN d = {"ptr", "pos", "cap", "prev", "next", "ok", "crashed"}

VdllIs(d, s) ==
  /\ VdllShape(d) /\ d.crashed = FALSE
  /\ VdllChain(s, d.cap, d.next, d.prev)
  /\ d.pos \in 0..d.cap /\ d.ptr = VdllNode(s, d.cap, d.pos + 1)

(* Or it has followed a null pointer.                                      *)
VdllHolds(d, s) ==
  VdllShape(d) /\ d.crashed \in BOOLEAN /\ (d.crashed = FALSE => VdllIs(d, s))

LEMMA VdllFlagged ==
  ASSUME NEW d, NEW s, VdllHolds(d, s), NEW b
  PROVE  LET e == [d EXCEPT !.ok = b] IN
         /\ VdllHolds(e, s) /\ e.ok = b
         /\ e.crashed = d.crashed /\ e.cap = d.cap /\ e.pos = d.pos /\ e.ptr = d.ptr
BY DEF VdllHolds, VdllIs, VdllShape

LEMMA VdllCrashed ==
  ASSUME NEW d, NEW s, VdllHolds(d, s), NEW b \in BOOLEAN, d.crashed = TRUE => b = TRUE
  PROVE  LET e == [d EXCEPT !.crashed = b] IN
         VdllHolds(e, s) /\ e.ok = d.ok /\ e.crashed = b
BY DEF VdllHolds, VdllIs, VdllShape

(* The cursor is on a node unless it is past the last.                     *)
LEMMA VdllCursor ==
  ASSUME NEW d, NEW s, VdllIs(d, s), NULL \notin VdllNodes
  PROVE  /\ d.cap \in Nat /\ d.pos \in Nat
         /\ d.ptr = NULL <=> d.pos = d.cap
         /\ d.pos < d.cap => d.pos + 1 \in 1..d.cap /\ d.ptr = s[d.pos + 1]
<1>1. d.cap \in Nat /\ d.pos \in 0..d.cap /\ s \in [1..d.cap -> VdllNodes]
      /\ d.ptr = VdllNode(s, d.cap, d.pos + 1)
  BY DEF VdllIs, VdllChain
<1>2. CASE d.pos = d.cap
  BY <1>1, <1>2 DEF VdllNode
<1>3. CASE d.pos < d.cap
  <2>1. d.pos + 1 \in 1..d.cap
    BY <1>1, <1>3
  <2>2. d.ptr = s[d.pos + 1] /\ s[d.pos + 1] \in VdllNodes
    BY <1>1, <2>1 DEF VdllNode
  <2> QED BY <1>1, <1>3, <2>1, <2>2
<1> QED BY <1>1, <1>2, <1>3

(* A step of the cursor.                                                   *)
VdllStepped(e, d, link, by) ==
  /\ VdllShape(e) /\ e.cap = d.cap /\ e.prev = d.prev /\ e.next = d.next
  /\ d.ptr = NULL => e.crashed = TRUE /\ e.ptr = NULL
  /\ d.ptr # NULL => e.crashed = d.crashed /\ e.ptr = link[d.ptr] /\ e.pos = d.pos + by

LEMMA VdllStepIs ==
  ASSUME NEW d, VdllShape(d), NEW link, NEW by
  PROVE  VdllStepped(VdllStep(d, link, by), d, link, by)
BY DEF VdllStep, VdllShape, VdllStepped

(* The cursor of d has moved to pos, or off an end of the list.            *)
VdllMoved(e, d, s, pos) ==
  /\ VdllShape(e) /\ e.cap = d.cap /\ e.next = d.next /\ e.prev = d.prev
  /\ \/ e.crashed = TRUE /\ e.ptr = NULL
     \/ VdllIs(e, s) /\ e.pos = pos

LEMMA VdllStepMoves ==
  ASSUME NEW d, NEW s, VdllIs(d, s), NULL \notin VdllNodes, NEW by \in {1, -1},
         NEW pos \in Nat, by = 1 \/ pos # 0, NEW e, VdllMoved(e, d, s, pos)
  PROVE  VdllMoved(VdllStep(e, IF by = 1 THEN d.next ELSE d.prev, by), d, s, pos + by)
<1> DEFINE link == IF by = 1 THEN d.next ELSE d.prev
           f == VdllStep(e, link, by)
<1>1. VdllShape(e) /\ e.cap = d.cap /\ e.next = d.next /\ e.prev = d.prev
  BY DEF VdllMoved
<1> HIDE DEF link
<1>2. VdllStepped(f, e, link, by)
  BY <1>1, VdllStepIs
<1> HIDE DEF f
<1>3. /\ VdllShape(f) /\ f.cap = e.cap /\ f.prev = e.prev /\ f.next = e.next
      /\ e.ptr = NULL => f.crashed = TRUE /\ f.ptr = NULL
      /\ e.ptr # NULL => f.crashed = e.crashed /\ f.ptr = link[e.ptr] /\ f.pos = e.pos + by
  BY <1>2 DEF VdllStepped
<1>4. VdllMoved(f, d, s, pos + by)
  <2>1. CASE e.ptr = NULL
    BY <1>1, <1>3, <2>1 DEF VdllMoved
  <2>2. CASE e.ptr # NULL
    <3>1. VdllIs(e, s) /\ e.pos = pos
      BY <2>2 DEF VdllMoved
    <3>2. /\ e.cap \in Nat /\ e.pos \in 0..e.cap /\ e.pos < e.cap
          /\ e.pos + 1 \in 1..e.cap /\ e.ptr = s[e.pos + 1]
      <4>1. /\ e.cap \in Nat /\ e.pos \in Nat /\ e.pos # e.cap
            /\ e.pos < e.cap => e.pos + 1 \in 1..e.cap /\ e.ptr = s[e.pos + 1]
        BY <2>2, <3>1, VdllCursor
      <4>2. e.pos \in 0..e.cap
        BY <3>1 DEF VdllIs
      <4> QED BY <4>1, <4>2
    <3>3. /\ e.next[e.ptr] = VdllNode(s, e.cap, (e.pos + 1) + 1)
          /\ e.prev[e.ptr] = VdllNode(s, e.cap, (e.pos + 1) - 1)
      BY <3>1, <3>2 DEF VdllIs, VdllChain
    <3>4. f.crashed = FALSE /\ VdllChain(s, f.cap, f.next, f.prev)
      BY <1>3, <2>2, <3>1 DEF VdllIs
    <3>5. f.pos = pos + by /\ f.pos \in 0..f.cap /\ f.ptr = VdllNode(s, f.cap, f.pos + 1)
      <4>1. CASE by = 1
        BY <1>1, <1>3, <2>2, <3>1, <3>2, <3>3, <4>1 DEF link
      <4>2. CASE by = -1
        <5>1. f.pos + 1 = (e.pos + 1) - 1 /\ f.pos = pos + by /\ f.pos \in 0..f.cap
          BY <1>3, <2>2, <3>1, <3>2, <4>2
        <5>2. link = e.prev
          BY <1>1, <4>2 DEF link
        <5> QED BY <1>3, <2>2, <3>3, <5>1, <5>2
      <4> QED BY <4>1, <4>2
    <3>6. VdllIs(f, s)
      BY <1>3, <3>4, <3>5 DEF VdllIs
    <3> QED BY <1>1, <1>3, <3>5, <3>6 DEF VdllMoved
  <2> QED BY <2>1, <2>2
<1> QED BY <1>4 DEF f, link

(* Where a loop of such steps leads.                                       *)
LEMMA VdllMoves ==
  ASSUME NEW d, NEW s, VdllIs(d, s), NULL \notin VdllNodes, NEW by \in {1, -1},
         NEW num \in Nat, by = -1 => num <= d.pos
  PROVE  VdllMoved(VdllMove(d, IF by = 1 THEN d.next ELSE d.prev, by, num), d, s,
                   IF by = 1 THEN d.pos + num ELSE d.pos - num)
<1> DEFINE link == IF by = 1 THEN d.next ELSE d.prev
           at(i) == IF by = 1 THEN d.pos + i ELSE d.pos - i
<1>1. PICK run : /\ run[0] = d
                 /\ \A i \in 1..num : run[i] = VdllStep(run[i - 1], link, by)
                 /\ VdllMove(d, link, by, num) = run[num]
  <2> HIDE DEF link
  <2> QED BY VdllMoveRun
<1>2. d.pos \in Nat
  BY VdllCursor
<1> DEFINE S == {i \in Nat : i <= num => VdllMoved(run[i], d, s, at(i))}
<1>3. 0 \in S
  <2>1. at(0) = d.pos
    BY <1>2
  <2>2. VdllMoved(d, d, s, d.pos)
    BY DEF VdllMoved, VdllIs
  <2> QED BY <1>1, <2>1, <2>2
<1>4. ASSUME NEW i \in S \cap Nat PROVE i + 1 \in S
  <2> SUFFICES ASSUME i + 1 <= num PROVE VdllMoved(run[i + 1], d, s, at(i + 1))
    OBVIOUS
  <2>1. i + 1 \in 1..num /\ (i + 1) - 1 = i /\ i <= num
    OBVIOUS
  <2>2. VdllMoved(run[i], d, s, at(i))
    BY <2>1
  <2>3. run[i + 1] = VdllStep(run[i], link, by)
    BY <1>1, <2>1
  <2>4. at(i) \in Nat /\ (by = 1 \/ at(i) # 0) /\ at(i + 1) = at(i) + by
    BY <1>2
  <2> HIDE DEF at
  <2>5. VdllMoved(VdllStep(run[i], link, by), d, s, at(i) + by)
    BY <2>2, <2>4, VdllStepMoves
  <2> QED BY <2>3, <2>4, <2>5
<1>5. num \in S
  <2> HIDE DEF S
  <2> QED BY <1>3, <1>4, SetInduction
<1> QED BY <1>1, <1>5

-----------------------------------------------------------------------------
(* The cursor.                                                             *)

LEMMA GreatestOfTwo ==
  ASSUME NEW a \in Int, NEW b \in Int
  PROVE  Max({a, b}) = IF a >= b THEN a ELSE b
<1>1. PICK m \in {a, b} : m = IF a >= b THEN a ELSE b
  OBVIOUS
<1>2. \A y \in {a, b} : m >= y
  BY <1>1
<1>3. \A x \in {a, b} : (\A y \in {a, b} : x >= y) => x = m
  BY <1>1
<1> QED BY <1>1, <1>2, <1>3 DEF Max

(* A move of the cursor changes no node; if it succeeds it gets to pos.    *)
VdllWent(e, d, s, pos) ==
  /\ VdllHolds(e, s) /\ e.cap = d.cap /\ e.next = d.next /\ e.prev = d.prev
  /\ e.ok \in BOOLEAN
  /\ e.ok = TRUE /\ e.crashed = FALSE => e.pos = pos

LEMMA VdllMovedWent ==
  ASSUME NEW d, NEW s, NEW pos, NEW m, VdllMoved(m, d, s, pos), NEW b \in BOOLEAN
  PROVE  VdllWent([m EXCEPT !.ok = b], d, s, pos)
<1> DEFINE e == [m EXCEPT !.ok = b]
<1>1. VdllShape(m) /\ m.cap = d.cap /\ m.next = d.next /\ m.prev = d.prev
  BY DEF VdllMoved
<1>2. /\ VdllShape(e) /\ e.cap = m.cap /\ e.next = m.next /\ e.prev = m.prev
      /\ e.crashed = m.crashed /\ e.pos = m.pos /\ e.ptr = m.ptr /\ e.ok = b
  BY <1>1 DEF VdllShape
<1> HIDE DEF e
<1>3. VdllHolds(e, s) /\ (e.crashed = FALSE => e.pos = pos)
  <2>1. CASE m.crashed = TRUE /\ m.ptr = NULL
    BY <1>2, <2>1 DEF VdllHolds
  <2>2. CASE VdllIs(m, s) /\ m.pos = pos
    <3>1. VdllIs(e, s)
      BY <1>2, <2>2 DEF VdllIs
    <3>2. e.crashed = FALSE /\ e.pos = pos
      BY <1>2, <2>2 DEF VdllIs
    <3> QED BY <1>2, <3>1, <3>2 DEF VdllHolds
  <2> QED BY <2>1, <2>2 DEF VdllMoved
<1>4. e.ok \in BOOLEAN /\ e.cap = d.cap /\ e.next = d.next /\ e.prev = d.prev
  BY <1>1, <1>2
<1>5. VdllWent(e, d, s, pos)
  BY <1>3, <1>4 DEF VdllWent
<1> QED BY <1>5 DEF e

LEMMA VdllFailWent ==
  ASSUME NEW d, NEW s, NEW pos, VdllIs(d, s)
  PROVE  VdllWent(VdllFail(d), d, s, pos)
BY DEF VdllFail, VdllWent, VdllHolds, VdllIs, VdllShape

LEMMA VdllWindWent ==
  ASSUME NEW d, NEW s, VdllIs(d, s), NULL \notin VdllNodes, NEW num \in Nat
  PROVE  VdllWent(vdll_wind(d, num), d, s, d.pos + num)
<1> DEFINE last == Max({d.cap - 1, 0})
           n == Min({num, last})
<1>1. d.cap \in Nat /\ d.pos \in Nat
  BY VdllCursor
<1>2. last \in Nat
  BY <1>1, GreatestOfTwo
<1>3. n \in Nat
  <2> HIDE DEF last
  <2> QED BY <1>2, LeastOfTwo
<1>4. VdllMoved(VdllMove(d, d.next, 1, n), d, s, d.pos + n)
  <2> HIDE DEF n
  <2> QED BY <1>3, VdllMoves
<1> DEFINE m == VdllMove(d, d.next, 1, n)
           e == [m EXCEPT !.ok = (n = num)]
<1>5. CASE d.ptr = NULL
  <2>1. vdll_wind(d, num) = VdllFail(d)
    BY <1>5 DEF vdll_wind
  <2> QED BY <2>1, VdllFailWent
<1>6. CASE d.ptr # NULL
  <2>1. vdll_wind(d, num) = e
    BY <1>6 DEF vdll_wind
  <2>2. VdllWent(e, d, s, d.pos + n)
    <3> HIDE DEF m, n
    <3> QED BY <1>4, VdllMovedWent DEF m
  <2>3. e.ok = TRUE => n = num
    <3>1. VdllShape(m)
      <4> HIDE DEF n
      <4> QED BY <1>4 DEF VdllMoved
    <3> HIDE DEF m
    <3>2. e.ok = (n = num)
      BY <3>1 DEF VdllShape
    <3> QED BY <3>2
  <2> HIDE DEF e, n
  <2>4. VdllWent(e, d, s, d.pos + num)
    BY <2>2, <2>3 DEF VdllWent
  <2> QED BY <2>1, <2>4
<1> QED BY <1>5, <1>6

(* And there was a node to start from.                                     *)
LEMMA VdllRewindWent ==
  ASSUME NEW d, NEW s, VdllIs(d, s), NULL \notin VdllNodes, NEW num \in Nat
  PROVE  /\ VdllWent(vdll_rewind(d, num), d, s, d.pos - num)
         /\ vdll_rewind(d, num).ok = TRUE => d.pos < d.cap
<1> DEFINE n == Min({num, d.pos})
<1>1. d.cap \in Nat /\ d.pos \in Nat /\ (d.ptr = NULL <=> d.pos = d.cap)
  BY VdllCursor
<1>2. d.pos <= d.cap
  BY <1>1 DEF VdllIs
<1>3. n \in Nat /\ n <= d.pos
  BY <1>1, LeastOfTwo
<1>4. VdllMoved(VdllMove(d, d.prev, -1, n), d, s, d.pos - n)
  <2> HIDE DEF n
  <2> QED BY <1>3, VdllMoves
<1> DEFINE m == VdllMove(d, d.prev, -1, n)
           e == [m EXCEPT !.ok = (n = num)]
<1>5. CASE d.ptr = NULL
  <2>1. vdll_rewind(d, num) = VdllFail(d)
    BY <1>5 DEF vdll_rewind
  <2>2. VdllFail(d).ok = FALSE
    BY DEF VdllFail, VdllIs, VdllShape
  <2> QED BY <2>1, <2>2, VdllFailWent
<1>6. CASE d.ptr # NULL
  <2>1. vdll_rewind(d, num) = e
    BY <1>6 DEF vdll_rewind
  <2>2. VdllWent(e, d, s, d.pos - n)
    <3> HIDE DEF m, n
    <3> QED BY <1>4, VdllMovedWent DEF m
  <2>3. e.ok = TRUE => n = num
    <3>1. VdllShape(m)
      <4> HIDE DEF n
      <4> QED BY <1>4 DEF VdllMoved
    <3> HIDE DEF m
    <3>2. e.ok = (n = num)
      BY <3>1 DEF VdllShape
    <3> QED BY <3>2
  <2> HIDE DEF e, n
  <2>4. VdllWent(e, d, s, d.pos - num)
    BY <2>2, <2>3 DEF VdllWent
  <2>5. d.pos < d.cap
    BY <1>1, <1>2, <1>6
  <2> QED BY <2>1, <2>4, <2>5
<1> QED BY <1>5, <1>6

(* A position is where a node is, or 0 in an empty list.                   *)
LEMMA VdllSeekWent ==
  ASSUME NEW d, NEW s, VdllIs(d, s), NULL \notin VdllNodes, NEW pos \in Nat
  PROVE  /\ VdllWent(vdll_seek(d, pos), d, s, pos)
         /\ vdll_seek(d, pos).ok = TRUE => pos < d.cap \/ (d.cap = 0 /\ pos = 0)
<1> DEFINE m == CASE pos > d.pos -> vdll_wind(d, pos - d.pos)
                  [] pos < d.pos -> vdll_rewind(d, d.pos - pos)
                  [] pos = d.pos -> VdllOK(d)
           beyond == pos >= d.cap /\ ~(d.pos = 0 /\ d.cap = 0 /\ pos = 0)
<1>1. d.cap \in Nat /\ d.pos \in Nat
  BY VdllCursor
<1>2. VdllWent(m, d, s, pos)
  <2>1. CASE pos > d.pos
    <3>1. pos - d.pos \in Nat /\ d.pos + (pos - d.pos) = pos /\ m = vdll_wind(d, pos - d.pos)
      BY <1>1, <2>1
    <3> QED BY <3>1, VdllWindWent
  <2>2. CASE pos < d.pos
    <3>1. d.pos - pos \in Nat /\ d.pos - (d.pos - pos) = pos /\ m = vdll_rewind(d, d.pos - pos)
      BY <1>1, <2>2
    <3> QED BY <3>1, VdllRewindWent
  <2>3. CASE pos = d.pos
    <3>1. m = [d EXCEPT !.ok = TRUE]
      BY <1>1, <2>3 DEF VdllOK
    <3>2. VdllMoved(d, d, s, pos)
      BY <2>3 DEF VdllMoved, VdllIs
    <3> HIDE DEF m
    <3>3. VdllWent([d EXCEPT !.ok = TRUE], d, s, pos)
      BY <3>2, VdllMovedWent
    <3> QED BY <3>1, <3>3
  <2> QED BY <1>1, <2>1, <2>2, <2>3
<1>3. vdll_seek(d, pos) = IF ~beyond /\ (m.ok \/ m.crashed) THEN m ELSE VdllFail(d)
  BY DEF vdll_seek
<1>4. VdllFail(d).ok = FALSE
  BY DEF VdllFail, VdllIs, VdllShape
<1> HIDE DEF m
<1>5. CASE beyond
  <2>1. vdll_seek(d, pos) = VdllFail(d)
    BY <1>3, <1>5
  <2> QED BY <1>4, <2>1, VdllFailWent
<1>6. CASE ~beyond
  <2>1. pos < d.cap \/ (d.cap = 0 /\ pos = 0)
    BY <1>1, <1>6
  <2>2. vdll_seek(d, pos) = m \/ vdll_seek(d, pos) = VdllFail(d)
    BY <1>3, <1>6
  <2> QED BY <1>2, <1>4, <2>1, <2>2, VdllFailWent
<1> QED BY <1>5, <1>6

-----------------------------------------------------------------------------
(* Nodes linked in and out.                                                *)

LEMMA VdllLinkIs ==
  ASSUME NEW d, NEW s, VdllIs(d, s), NULL \notin VdllNodes, NEW after \in BOOLEAN,
         d.pos < d.cap \/ d.cap = 0, NEW new \in VdllNodes \ DOMAIN d.next
  PROVE  LET e == VdllLink(d, new, after)
             k == IF d.cap = 0 THEN 0 ELSE IF after THEN d.pos ELSE d.pos + 1
         IN /\ VdllIs(e, VdllPut(s, d.cap, k, new))
            /\ e.cap = d.cap + 1 /\ e.pos = d.pos /\ e.ok = d.ok
            /\ DOMAIN e.next = {new} \cup DOMAIN d.next
            /\ k \in 0..d.cap
<1> DEFINE k == IF d.cap = 0 THEN 0 ELSE IF after THEN d.pos ELSE d.pos + 1
           p == IF d.ptr = NULL THEN NULL ELSE IF after THEN d.prev[d.ptr] ELSE d.ptr
           n == IF d.ptr = NULL THEN NULL ELSE IF after THEN d.ptr ELSE d.next[d.ptr]
           nodes == {new} \cup DOMAIN d.next
           next2 == [x \in nodes |-> IF x = new THEN n ELSE IF x = p THEN new ELSE d.next[x]]
           prev2 == [x \in nodes |-> IF x = new THEN p ELSE IF x = n THEN new ELSE d.prev[x]]
           e == VdllLink(d, new, after)
           t == VdllPut(s, d.cap, k, new)
<1>1. /\ d.cap \in Nat /\ d.pos \in 0..d.cap /\ (d.ptr = NULL <=> d.pos = d.cap)
      /\ d.pos < d.cap => d.pos + 1 \in 1..d.cap /\ d.ptr = s[d.pos + 1]
      /\ VdllChain(s, d.cap, d.next, d.prev) /\ VdllShape(d) /\ d.crashed = FALSE
  BY VdllCursor DEF VdllIs
<1>2. k \in 0..d.cap /\ (d.cap = 0 => d.pos = 0)
  BY <1>1
<1>3. p = VdllNode(s, d.cap, k) /\ n = VdllNode(s, d.cap, k + 1)
  <2>1. CASE d.cap = 0
    BY <1>1, <2>1 DEF VdllNode
  <2>2. CASE d.cap # 0
    <3>1. /\ d.ptr # NULL /\ d.pos + 1 \in 1..d.cap /\ d.ptr = s[d.pos + 1]
          /\ (d.pos + 1) - 1 = d.pos
      BY <1>1, <2>2
    <3>2. d.ptr = VdllNode(s, d.cap, d.pos + 1)
      BY <3>1 DEF VdllNode
    <3>3. /\ d.next[d.ptr] = VdllNode(s, d.cap, (d.pos + 1) + 1)
          /\ d.prev[d.ptr] = VdllNode(s, d.cap, (d.pos + 1) - 1)
      BY <1>1, <3>1 DEF VdllChain
    <3> QED BY <2>2, <3>1, <3>2, <3>3
  <2> QED BY <2>1, <2>2
<1>4. /\ e.next = next2 /\ e.prev = prev2 /\ e.cap = d.cap + 1 /\ e.pos = d.pos /\ e.ok = d.ok
      /\ e.ptr = (IF d.ptr = NULL \/ after THEN new ELSE d.ptr)
      /\ e.crashed = FALSE /\ VdllShape(e)
  BY <1>1 DEF VdllLink, VdllShape
<1> HIDE DEF e, p, n
<1>5. VdllChain(t, d.cap + 1, next2, prev2)
  <2> HIDE DEF k
  <2> QED BY <1>1, <1>2, <1>3, VdllChainPut
<1>6. /\ t \in [1..d.cap + 1 -> VdllNodes] /\ k + 1 \in 1..d.cap + 1 /\ t[k + 1] = new
      /\ \A i \in 1..k : i \in 1..d.cap + 1 /\ t[i] = s[i]
  <2>1. s \in [1..d.cap -> VdllNodes] /\ d.cap \in Nat
    BY <1>1 DEF VdllChain
  <2> HIDE DEF k, t
  <2>2. VdllIsPut(t, s, d.cap, k, new)
    BY <1>2, <2>1, VdllPutIs DEF t
  <2> QED BY <2>2 DEF VdllIsPut
<1>7. e.ptr = VdllNode(t, d.cap + 1, d.pos + 1)
  <2>1. CASE d.ptr = NULL \/ after
    <3>1. k = d.pos
      BY <1>1, <1>2, <2>1
    <3> HIDE DEF k, t
    <3> QED BY <1>4, <1>6, <2>1, <3>1 DEF VdllNode
  <2>2. CASE ~(d.ptr = NULL \/ after)
    <3>1. k = d.pos + 1 /\ d.ptr = s[d.pos + 1] /\ d.pos + 1 \in 1..k
      BY <1>1, <1>2, <2>2
    <3> HIDE DEF k, t
    <3>2. d.pos + 1 \in 1..d.cap + 1 /\ t[d.pos + 1] = s[d.pos + 1]
      BY <1>6, <3>1
    <3> QED BY <1>4, <2>2, <3>1, <3>2 DEF VdllNode
  <2> QED BY <2>1, <2>2
<1>8. e.pos \in 0..e.cap
  BY <1>1, <1>4
<1>9. VdllIs(e, t)
  <2> HIDE DEF t, next2, prev2
  <2> QED BY <1>4, <1>5, <1>7, <1>8 DEF VdllIs
<1>10. DOMAIN e.next = {new} \cup DOMAIN d.next
  BY <1>4
<1> HIDE DEF t, k
<1> QED BY <1>2, <1>4, <1>9, <1>10 DEF e, t, k

LEMMA VdllUnlinkIs ==
  ASSUME NEW d, NEW s, VdllIs(d, s), NULL \notin VdllNodes, d.pos < d.cap
  PROVE  LET e == VdllUnlink(d)
         IN /\ VdllIs(e, VdllTaken(s, d.cap, d.pos + 1))
            /\ e.cap = d.cap - 1 /\ e.pos = (IF d.pos = 0 THEN 0 ELSE d.pos - 1) /\ e.ok = d.ok
            /\ d.pos + 1 \in 1..d.cap
<1> DEFINE k == d.pos + 1
           p == d.prev[d.ptr]
           n == d.next[d.ptr]
           rest == DOMAIN d.next \ {d.ptr}
           next2 == [x \in rest |-> IF x = p THEN n ELSE d.next[x]]
           prev2 == [x \in rest |-> IF x = n THEN p ELSE d.prev[x]]
           e == VdllUnlink(d)
           t == VdllTaken(s, d.cap, k)
<1>1. /\ d.cap \in Nat /\ d.pos \in 0..d.cap /\ k \in 1..d.cap /\ d.ptr = s[k]
      /\ VdllChain(s, d.cap, d.next, d.prev) /\ VdllShape(d) /\ d.crashed = FALSE
  BY VdllCursor DEF VdllIs
<1>2. p = VdllNode(s, d.cap, k - 1) /\ n = VdllNode(s, d.cap, k + 1)
  BY <1>1 DEF VdllChain
<1>3. Max({d.pos - 1, 0}) = (IF d.pos = 0 THEN 0 ELSE d.pos - 1) /\ Max({d.cap - 1, 0}) = d.cap - 1
  BY <1>1, GreatestOfTwo
<1>4. /\ e.next = next2 /\ e.prev = prev2 /\ e.cap = Max({d.cap - 1, 0})
      /\ e.pos = Max({d.pos - 1, 0}) /\ e.ok = d.ok
      /\ e.ptr = (IF p = NULL THEN n ELSE p) /\ e.crashed = FALSE /\ VdllShape(e)
  BY <1>1 DEF VdllUnlink, VdllShape
<1> HIDE DEF e, p, n
<1>5. VdllChain(t, d.cap - 1, next2, prev2)
  <2> HIDE DEF k
  <2> QED BY <1>1, <1>2, VdllChainTake
<1>6. /\ d.cap - 1 \in Nat /\ t \in [1..d.cap - 1 -> VdllNodes] /\ s \in [1..d.cap -> VdllNodes]
      /\ \A i \in 1..k - 1 : i \in 1..d.cap - 1 /\ i \in 1..d.cap /\ t[i] = s[i]
      /\ \A i \in k..d.cap - 1 : i \in 1..d.cap - 1 /\ i + 1 \in 1..d.cap /\ t[i] = s[i + 1]
  <2>1. s \in [1..d.cap -> VdllNodes] /\ d.cap \in Nat
    BY <1>1 DEF VdllChain
  <2> HIDE DEF k, t
  <2>2. VdllIsTaken(t, s, d.cap, k)
    BY <1>1, <2>1, VdllTakenIs DEF t
  <2> QED BY <2>1, <2>2 DEF VdllIsTaken
<1> HIDE DEF t
<1>7. e.ptr = VdllNode(t, d.cap - 1, e.pos + 1)
  <2>1. CASE d.pos = 0
    <3>1. p = NULL /\ e.pos = 0 /\ k = 1
      BY <1>1, <1>2, <1>3, <1>4, <2>1 DEF VdllNode
    <3>2. VdllNode(s, d.cap, 2) = VdllNode(t, d.cap - 1, 1)
      BY <1>1, <1>6, <3>1 DEF VdllNode
    <3> QED BY <1>2, <1>4, <3>1, <3>2
  <2>2. CASE d.pos # 0
    <3>1. d.pos \in 1..k - 1 /\ d.pos \in 1..d.cap /\ k - 1 = d.pos /\ e.pos + 1 = d.pos
      BY <1>1, <1>3, <1>4, <2>2
    <3>2. p = s[d.pos] /\ s[d.pos] \in VdllNodes
      BY <1>2, <1>6, <3>1 DEF VdllNode
    <3>3. d.pos \in 1..d.cap - 1 /\ t[d.pos] = s[d.pos]
      BY <1>6, <3>1
    <3> QED BY <1>4, <3>1, <3>2, <3>3 DEF VdllNode
  <2> QED BY <2>1, <2>2
<1>8. e.pos \in 0..e.cap
  BY <1>1, <1>3, <1>4
<1>9. VdllIs(e, t)
  <2> HIDE DEF next2, prev2
  <2> QED BY <1>3, <1>4, <1>5, <1>7, <1>8 DEF VdllIs
<1> QED BY <1>1, <1>3, <1>4, <1>9 DEF e, t

-----------------------------------------------------------------------------
(* Runs of them.                                                           *)

(* The m of t are the n of s but for a run after the first `at`.           *)
VdllIsRun(t, m, s, n, at) ==
  /\ m \in Nat /\ n \in Nat /\ m <= n /\ at \in 0..m
  /\ t \in [1..m -> VdllNodes] /\ s \in [1..n -> VdllNodes]
  /\ \A i \in 1..at : i \in 1..m /\ i \in 1..n /\ t[i] = s[i]
  /\ \A i \in at + 1..m : i \in 1..m /\ i + (n - m) \in 1..n /\ t[i] = s[i + (n - m)]

LEMMA VdllRunPut ==
  ASSUME NEW t, NEW m, NEW s, NEW n, NEW at, VdllIsRun(t, m, s, n, at),
         NEW k \in at..at + (n - m), NEW new \in VdllNodes
  PROVE  VdllIsRun(t, m, VdllPut(s, n, k, new), n + 1, at)
<1> DEFINE u == VdllPut(s, n, k, new)
<1>1. /\ m \in Nat /\ n \in Nat /\ m <= n /\ at \in 0..m
      /\ t \in [1..m -> VdllNodes] /\ s \in [1..n -> VdllNodes]
      /\ \A i \in 1..at : i \in 1..m /\ i \in 1..n /\ t[i] = s[i]
      /\ \A i \in at + 1..m : i \in 1..m /\ i + (n - m) \in 1..n /\ t[i] = s[i + (n - m)]
  BY DEF VdllIsRun
<1>2. k \in 0..n
  BY <1>1
<1>3. /\ u \in [1..n + 1 -> VdllNodes]
      /\ \A i \in 1..k : i \in 1..n + 1 /\ u[i] = s[i]
      /\ \A i \in k + 1..n : i + 1 \in 1..n + 1 /\ u[i + 1] = s[i]
  <2>1. VdllIsPut(u, s, n, k, new)
    BY <1>1, <1>2, VdllPutIs
  <2> QED BY <2>1 DEF VdllIsPut
<1> HIDE DEF u
<1>4. \A i \in 1..at : i \in 1..m /\ i \in 1..n + 1 /\ t[i] = u[i]
  <2> TAKE i \in 1..at
  <2>1. i \in 1..k
    BY <1>1
  <2> QED BY <1>1, <1>3, <2>1
<1>5. \A i \in at + 1..m : i \in 1..m /\ i + ((n + 1) - m) \in 1..n + 1
                           /\ t[i] = u[i + ((n + 1) - m)]
  <2> TAKE i \in at + 1..m
  <2> DEFINE j == i + (n - m)
  <2>1. j \in k + 1..n /\ j + 1 = i + ((n + 1) - m)
    BY <1>1
  <2>2. i \in 1..m /\ t[i] = s[j]
    BY <1>1
  <2> HIDE DEF j
  <2>3. j + 1 \in 1..n + 1 /\ u[j + 1] = s[j]
    BY <1>3, <2>1
  <2> QED BY <2>1, <2>2, <2>3
<1>6. n + 1 \in Nat /\ m <= n + 1
  BY <1>1
<1> QED BY <1>1, <1>3, <1>4, <1>5, <1>6 DEF VdllIsRun, u

LEMMA VdllRunTake ==
  ASSUME NEW t, NEW m, NEW s, NEW n, NEW at, VdllIsRun(t, m, s, n, at),
         NEW k \in 1..m, k = IF at = 0 THEN 1 ELSE at
  PROVE  VdllIsRun(VdllTaken(t, m, k), m - 1, s, n, IF at = 0 THEN 0 ELSE at - 1)
<1> DEFINE u == VdllTaken(t, m, k)
           b == IF at = 0 THEN 0 ELSE at - 1
<1>1. /\ m \in Nat /\ n \in Nat /\ m <= n /\ at \in 0..m
      /\ t \in [1..m -> VdllNodes] /\ s \in [1..n -> VdllNodes]
      /\ \A i \in 1..at : i \in 1..m /\ i \in 1..n /\ t[i] = s[i]
      /\ \A i \in at + 1..m : i \in 1..m /\ i + (n - m) \in 1..n /\ t[i] = s[i + (n - m)]
  BY DEF VdllIsRun
<1>2. /\ m - 1 \in Nat /\ u \in [1..m - 1 -> VdllNodes]
      /\ \A i \in 1..k - 1 : i \in 1..m - 1 /\ i \in 1..m /\ u[i] = t[i]
      /\ \A i \in k..m - 1 : i \in 1..m - 1 /\ i + 1 \in 1..m /\ u[i] = t[i + 1]
  <2>1. VdllIsTaken(u, t, m, k)
    BY <1>1, VdllTakenIs
  <2> QED BY <2>1 DEF VdllIsTaken
<1> HIDE DEF u
<1>3. b = k - 1 /\ b \in 0..m - 1 /\ b <= at /\ at <= k
  BY <1>1
<1> HIDE DEF b
<1>4. \A i \in 1..b : i \in 1..m - 1 /\ i \in 1..n /\ u[i] = s[i]
  <2> TAKE i \in 1..b
  <2>1. i \in 1..k - 1 /\ i \in 1..at
    BY <1>1, <1>3
  <2> QED BY <1>1, <1>2, <2>1
<1>5. \A i \in b + 1..m - 1 : i \in 1..m - 1 /\ i + (n - (m - 1)) \in 1..n
                              /\ u[i] = s[i + (n - (m - 1))]
  <2> TAKE i \in b + 1..m - 1
  <2> DEFINE j == i + 1
  <2>1. i \in k..m - 1 /\ j \in at + 1..m /\ j + (n - m) = i + (n - (m - 1))
    BY <1>1, <1>3
  <2>2. u[i] = t[j] /\ i \in 1..m - 1
    BY <1>2, <2>1
  <2> HIDE DEF j
  <2>3. j + (n - m) \in 1..n /\ t[j] = s[j + (n - m)]
    BY <1>1, <2>1
  <2> QED BY <2>1, <2>2, <2>3
<1>6. m - 1 <= n
  BY <1>1
<1> QED BY <1>1, <1>2, <1>3, <1>4, <1>5, <1>6 DEF VdllIsRun, u, b

LEMMA VdllRunNone ==
  ASSUME NEW s, NEW n \in Nat, s \in [1..n -> VdllNodes], NEW at \in 0..n
  PROVE  VdllIsRun(s, n, s, n, at)
BY DEF VdllIsRun

(* New nodes in a row are a run beside the cursor, which stays where it is.*)
VdllBeside(d, pos, after) == IF d.cap = 0 THEN 0 ELSE IF after THEN pos ELSE pos + 1
VdllLonger(e, d, s, num, at) ==
  \E t : /\ VdllIs(e, t) /\ e.cap = d.cap + num /\ e.pos = d.pos /\ e.ok = d.ok
         /\ VdllIsRun(s, d.cap, t, e.cap, at)

LEMMA VdllLinksIs ==
  ASSUME NEW d, NEW s, VdllIs(d, s), NULL \notin VdllNodes, NEW after \in BOOLEAN,
         d.pos < d.cap \/ d.cap = 0, NEW num \in Nat,
         IsFiniteSet(VdllNodes), num <= Cardinality(VdllNodes \ DOMAIN d.next)
  PROVE  VdllLonger(VdllLinks(d, num, after), d, s, num, VdllBeside(d, d.pos, after))
<1> DEFINE k == IF d.cap = 0 THEN 0 ELSE IF after THEN d.pos ELSE d.pos + 1
           free(e) == VdllNodes \ DOMAIN e.next
           I(e, i) == \E t : /\ VdllIs(e, t) /\ VdllIsRun(s, d.cap, t, e.cap, k)
                             /\ e.cap = d.cap + i /\ e.pos = d.pos /\ e.ok = d.ok
                             /\ Cardinality(free(e)) = Cardinality(free(d)) - i
<1>1. PICK run : /\ run[0] = d
                 /\ \A i \in 1..num : run[i] = VdllLinkNew(run[i - 1], after)
                 /\ VdllLinks(d, num, after) = run[num]
  BY VdllLinksRun
<1>2. /\ d.cap \in Nat /\ d.pos \in 0..d.cap /\ k \in 0..d.cap
      /\ s \in [1..d.cap -> VdllNodes]
  BY VdllCursor DEF VdllIs, VdllChain
<1>3. \A e : IsFiniteSet(free(e)) /\ Cardinality(free(e)) \in Nat
  BY FS_Subset, FS_CardinalityType
<1> DEFINE S == {i \in Nat : i <= num => I(run[i], i)}
<1>4. 0 \in S
  <2>1. VdllIsRun(s, d.cap, s, d.cap, k)
    <3> HIDE DEF k
    <3> QED BY <1>2, VdllRunNone
  <2>2. d.cap = d.cap + 0 /\ Cardinality(free(d)) = Cardinality(free(d)) - 0
    <3>1. Cardinality(free(d)) \in Nat
      BY <1>3
    <3> HIDE DEF free
    <3> QED BY <1>2, <3>1
  <2> HIDE DEF free, k
  <2>3. I(d, 0)
    BY <2>1, <2>2
  <2> HIDE DEF I
  <2> QED BY <1>1, <2>3
<1> HIDE DEF I
<1>5. ASSUME NEW i \in S \cap Nat PROVE i + 1 \in S
  <2> SUFFICES ASSUME i + 1 <= num PROVE I(run[i + 1], i + 1)
    OBVIOUS
  <2>0. i \in Nat /\ I(run[i], i)
    OBVIOUS
  <2> USE DEF I
  <2> DEFINE e == run[i]
             new == CHOOSE x \in free(e) : TRUE
             f == VdllLink(e, new, after)
             j == IF e.cap = 0 THEN 0 ELSE IF after THEN e.pos ELSE e.pos + 1
  <2>1. i + 1 \in 1..num /\ (i + 1) - 1 = i /\ i <= num
    OBVIOUS
  <2>2. PICK t : /\ VdllIs(e, t) /\ VdllIsRun(s, d.cap, t, e.cap, k)
                 /\ e.cap = d.cap + i /\ e.pos = d.pos /\ e.ok = d.ok
                 /\ Cardinality(free(e)) = Cardinality(free(d)) - i
    BY <2>0
  <2>3. run[i + 1] = f
    BY <1>1, <2>1 DEF VdllLinkNew
  <2>4. new \in free(e)
    <3>1. Cardinality(free(e)) # 0
      <4>1. Cardinality(free(d)) \in Nat /\ num <= Cardinality(free(d))
        BY <1>3
      <4> HIDE DEF free
      <4> QED BY <2>2, <4>1
    <3>2. free(e) # {}
      BY <3>1, FS_EmptySet
    <3> QED BY <3>2
  <2> HIDE DEF new, e
  <2>5. e.pos < e.cap \/ e.cap = 0
    BY <1>2, <2>2
  <2>6. /\ VdllIs(f, VdllPut(t, e.cap, j, new))
        /\ f.cap = e.cap + 1 /\ f.pos = e.pos /\ f.ok = e.ok
        /\ DOMAIN f.next = {new} \cup DOMAIN e.next
    BY <2>2, <2>4, <2>5, VdllLinkIs
  <2>7. j \in k..k + (e.cap - d.cap) /\ new \in VdllNodes
    BY <1>2, <2>2, <2>4
  <2>8. Cardinality(free(f)) = Cardinality(free(d)) - (i + 1)
    <3>1. free(f) = free(e) \ {new} /\ IsFiniteSet(free(e))
      BY <1>3, <2>6
    <3>2. Cardinality(free(f)) = Cardinality(free(e)) - 1
      <4> HIDE DEF free
      <4> QED BY <2>4, <3>1, FS_RemoveElement
    <3>3. Cardinality(free(d)) \in Nat
      BY <1>3
    <3> HIDE DEF free
    <3> QED BY <2>2, <3>2, <3>3
  <2> HIDE DEF f, j, k, free
  <2>9. VdllIsRun(s, d.cap, VdllPut(t, e.cap, j, new), e.cap + 1, k)
    BY <2>2, <2>7, VdllRunPut
  <2>10. f.cap = d.cap + (i + 1)
    <3>1. e.cap = d.cap + i /\ f.cap = e.cap + 1 /\ d.cap \in Nat
      BY <1>2, <2>2, <2>6
    <3> QED BY <2>0, <3>1
  <2>11. I(f, i + 1)
    BY <2>2, <2>6, <2>8, <2>9, <2>10
  <2> QED BY <2>3, <2>11
<1>6. num \in S
  <2> HIDE DEF S
  <2> QED BY <1>4, <1>5, SetInduction
<1> HIDE DEF k, free
<1>7. I(VdllLinks(d, num, after), num)
  BY <1>1, <1>6
<1>8. k = VdllBeside(d, d.pos, after)
  BY DEF VdllBeside, k
<1> QED BY <1>7, <1>8 DEF VdllLonger, I

(* Nodes are taken out from the cursor back, and then from the start.      *)
VdllFrom(pos, num) == IF num <= pos + 1 THEN pos + 1 - num ELSE 0
VdllShorter(e, d, s, num) ==
  \E t : /\ VdllIs(e, t) /\ e.cap = d.cap - num /\ e.ok = d.ok
         /\ VdllIsRun(t, e.cap, s, d.cap, VdllFrom(d.pos, num))

LEMMA VdllUnlinksIs ==
  ASSUME NEW d, NEW s, VdllIs(d, s), NULL \notin VdllNodes,
         NEW num \in Nat, num # 0, d.pos + num <= d.cap
  PROVE  VdllShorter(VdllUnlinks(d, num), d, s, num)
<1> DEFINE at(i) == IF i <= d.pos + 1 THEN d.pos + 1 - i ELSE 0
           I(e, i) == \E t : /\ VdllIs(e, t) /\ VdllIsRun(t, e.cap, s, d.cap, at(i))
                             /\ e.cap = d.cap - i /\ e.ok = d.ok
                             /\ e.pos = IF at(i) = 0 THEN 0 ELSE at(i) - 1
<1>1. PICK run : /\ run[0] = d
                 /\ \A i \in 1..num : run[i] = VdllUnlink(run[i - 1])
                 /\ VdllUnlinks(d, num) = run[num]
  BY VdllUnlinksRun
<1>2. /\ d.cap \in Nat /\ d.pos \in Nat /\ s \in [1..d.cap -> VdllNodes]
  BY VdllCursor DEF VdllIs, VdllChain
<1> DEFINE S == {i \in Nat : i <= num => I(run[i], i)}
<1>3. 0 \in S
  <2>1. at(0) = d.pos + 1 /\ d.pos + 1 \in 0..d.cap /\ d.pos + 1 # 0 /\ (d.pos + 1) - 1 = d.pos
        /\ d.cap = d.cap - 0
    BY <1>2
  <2> HIDE DEF at
  <2>2. VdllIsRun(s, d.cap, s, d.cap, at(0))
    BY <1>2, <2>1, VdllRunNone
  <2>3. I(d, 0)
    BY <2>1, <2>2
  <2> HIDE DEF I
  <2> QED BY <1>1, <2>3
<1>4. ASSUME NEW i \in S \cap Nat PROVE i + 1 \in S
  <2> SUFFICES ASSUME i + 1 <= num PROVE I(run[i + 1], i + 1)
    OBVIOUS
  <2> DEFINE e == run[i]
             f == VdllUnlink(e)
  <2>1. i + 1 \in 1..num /\ (i + 1) - 1 = i /\ i <= num
    OBVIOUS
  <2>2. PICK t : /\ VdllIs(e, t) /\ VdllIsRun(t, e.cap, s, d.cap, at(i))
                 /\ e.cap = d.cap - i /\ e.ok = d.ok
                 /\ e.pos = IF at(i) = 0 THEN 0 ELSE at(i) - 1
    BY <2>1
  <2>3. run[i + 1] = f
    BY <1>1, <2>1
  <2> HIDE DEF e
  <2>4. /\ at(i) \in Nat /\ at(i + 1) = (IF at(i) = 0 THEN 0 ELSE at(i) - 1)
        /\ e.pos < e.cap /\ e.cap - 1 = d.cap - (i + 1)
    <3>1. /\ e.cap = d.cap - i /\ e.pos = IF at(i) = 0 THEN 0 ELSE at(i) - 1
          /\ i \in Nat /\ d.pos + num <= d.cap /\ i + 1 <= num
      BY <2>2
    <3> HIDE DEF S, I
    <3>2. at(i) \in Nat /\ at(i + 1) = (IF at(i) = 0 THEN 0 ELSE at(i) - 1)
      <4>1. i \in Nat /\ d.pos \in Nat
        BY <1>2, <3>1
      <4>2. CASE i <= d.pos
        <5>1. at(i) = d.pos + 1 - i /\ at(i + 1) = d.pos + 1 - (i + 1) /\ at(i) # 0
          BY <4>1, <4>2
        <5> QED BY <4>1, <4>2, <5>1
      <4>3. CASE i > d.pos
        <5>1. at(i) = 0 /\ at(i + 1) = 0
          BY <4>1, <4>3
        <5> QED BY <5>1
      <4> QED BY <4>1, <4>2, <4>3
    <3>3. e.pos < d.cap - i
      <4>1. i \in Nat /\ d.pos \in Nat /\ d.cap \in Nat /\ i < d.cap - d.pos
        BY <1>2, <3>1
      <4>2. CASE at(i) = 0
        BY <3>1, <4>1, <4>2
      <4>3. CASE at(i) # 0
        <5>1. at(i) = d.pos + 1 - i
          BY <4>3
        <5>2. e.pos = at(i) - 1
          BY <3>1, <4>3
        <5> HIDE DEF at
        <5> QED BY <4>1, <5>1, <5>2
      <4> QED BY <4>2, <4>3
    <3>4. (d.cap - i) - 1 = d.cap - (i + 1)
      <4> HIDE DEF at
      <4> QED BY <1>2, <3>1, SMTT(40)
    <3> HIDE DEF at
    <3> QED BY <3>1, <3>2, <3>3, <3>4
  <2> HIDE DEF at
  <2>5. /\ VdllIs(f, VdllTaken(t, e.cap, e.pos + 1))
        /\ f.cap = e.cap - 1 /\ f.pos = (IF e.pos = 0 THEN 0 ELSE e.pos - 1) /\ f.ok = e.ok
        /\ e.pos + 1 \in 1..e.cap
    BY <2>2, <2>4, VdllUnlinkIs
  <2>6. e.pos + 1 = IF at(i) = 0 THEN 1 ELSE at(i)
    BY <2>2, <2>4
  <2>7. f.pos = IF at(i + 1) = 0 THEN 0 ELSE at(i + 1) - 1
    BY <2>2, <2>4, <2>5
  <2> HIDE DEF f
  <2>8. VdllIsRun(VdllTaken(t, e.cap, e.pos + 1), f.cap, s, d.cap, at(i + 1))
    BY <2>2, <2>4, <2>5, <2>6, VdllRunTake
  <2>9. f.cap = d.cap - (i + 1) /\ f.ok = d.ok
    BY <2>2, <2>4, <2>5
  <2>10. I(f, i + 1)
    BY <2>5, <2>7, <2>8, <2>9
  <2> QED BY <2>3, <2>10
<1>5. num \in S
  <2> HIDE DEF S
  <2> QED BY <1>3, <1>4, SetInduction
<1> HIDE DEF at
<1>6. I(VdllUnlinks(d, num), num)
  BY <1>1, <1>5
<1>7. at(num) = VdllFrom(d.pos, num)
  BY DEF VdllFrom, at
<1> QED BY <1>6, <1>7 DEF VdllShorter

(* A null pointer once followed, no matter.                                *)
LEMMA VdllUnlinksCrashed ==
  ASSUME NEW d, VdllShape(d), d.crashed = TRUE, NEW num \in Nat
  PROVE  VdllShape(VdllUnlinks(d, num)) /\ VdllUnlinks(d, num).crashed = TRUE
<1> DEFINE I(e) == VdllShape(e) /\ e.crashed = TRUE
<1>1. PICK run : /\ run[0] = d
                 /\ \A i \in 1..num : run[i] = VdllUnlink(run[i - 1])
                 /\ VdllUnlinks(d, num) = run[num]
  BY VdllUnlinksRun
<1> DEFINE S == {i \in Nat : i <= num => I(run[i])}
<1>2. 0 \in S
  BY <1>1
<1> HIDE DEF I
<1>3. ASSUME NEW i \in S \cap Nat PROVE i + 1 \in S
  <2> SUFFICES ASSUME i + 1 <= num PROVE I(run[i + 1])
    OBVIOUS
  <2>1. i + 1 \in 1..num /\ (i + 1) - 1 = i /\ i <= num
    OBVIOUS
  <2>2. I(run[i])
    BY <2>1
  <2>3. run[i + 1] = VdllUnlink(run[i])
    BY <1>1, <2>1
  <2>4. \A e : I(e) => I(VdllUnlink(e))
    BY DEF VdllUnlink, VdllShape, I
  <2> QED BY <2>2, <2>3, <2>4
<1>4. num \in S
  <2> HIDE DEF S
  <2> QED BY <1>2, <1>3, SetInduction
<1> QED BY <1>1, <1>4 DEF I

-----------------------------------------------------------------------------
(* The calls.                                                              *)

(* After a call that fails, too, there is a list, or a null pointer was    *)
(* followed.                                                               *)
VdllAlive(e) ==
  /\ VdllShape(e) /\ e.crashed \in BOOLEAN
  /\ e.crashed = FALSE => e.ok \in BOOLEAN /\ \E t : VdllIs(e, t)

LEMMA VdllWentAlive ==
  ASSUME NEW d, NEW s, NEW e, NEW pos, VdllWent(e, d, s, pos)
  PROVE  VdllAlive(e)
BY DEF VdllWent, VdllHolds, VdllAlive

LEMMA VdllFailAlive ==
  ASSUME NEW e, VdllAlive(e)
  PROVE  VdllAlive(VdllFail(e)) /\ VdllFail(e).ok = FALSE
<1> DEFINE f == VdllFail(e)
<1>1. /\ VdllShape(f) /\ f.ok = FALSE /\ f.crashed = e.crashed /\ f.cap = e.cap
      /\ f.pos = e.pos /\ f.ptr = e.ptr /\ f.next = e.next /\ f.prev = e.prev
      /\ e.crashed \in BOOLEAN
  BY DEF VdllAlive, VdllFail, VdllShape
<1> HIDE DEF f
<1>2. ASSUME f.crashed = FALSE PROVE \E t : VdllIs(f, t)
  <2>1. PICK t : VdllIs(e, t)
    BY <1>1, <1>2 DEF VdllAlive
  <2> QED BY <1>1, <1>2, <2>1 DEF VdllIs
<1>3. VdllAlive(f) /\ f.ok = FALSE
  BY <1>1, <1>2 DEF VdllAlive
<1> QED BY <1>3 DEF f

(* What a call that succeeds has put in beside pos or taken out up to pos; *)
(* a deletion that fails has taken out nothing.                            *)
VdllInserted(e, d, s, pos, num, after) ==
  e.crashed = FALSE /\ e.ok = TRUE =>
    \E t : /\ VdllIs(e, t) /\ e.cap = d.cap + num
           /\ VdllIsRun(s, d.cap, t, e.cap, VdllBeside(d, pos, after))

VdllDeleted(e, d, s, pos, num) ==
  /\ e.crashed = FALSE /\ e.ok = FALSE => VdllIs(e, s)
  /\ e.crashed = FALSE /\ e.ok = TRUE =>
       \E t : /\ VdllIs(e, t) /\ e.cap = d.cap - num
              /\ VdllIsRun(t, e.cap, s, d.cap, VdllFrom(pos, num))

LEMMA VdllDeleteIs ==
  ASSUME NEW d, NEW s, VdllIs(d, s), NULL \notin VdllNodes, NEW pos \in Nat, NEW num \in Nat
  PROVE  /\ VdllAlive(vdll_delete(d, pos, num))
         /\ VdllDeleted(vdll_delete(d, pos, num), d, s, pos, num)
<1> DEFINE at == vdll_seek(d, pos)
           wound == vdll_wind(at, num - 1)
           back == vdll_rewind(wound, num - 1)
           e == vdll_delete(d, pos, num)
<1> SUFFICES VdllAlive(e) /\ VdllDeleted(e, d, s, pos, num)
  OBVIOUS
<1>1. VdllWent(at, d, s, pos)
  BY VdllSeekWent
<1>2. ASSUME NEW f, NEW c, NEW p, VdllWent(f, c, s, p), f.crashed = TRUE \/ f.ok = FALSE
      PROVE  VdllAlive(f) /\ VdllDeleted(f, d, s, pos, num)
  <2>1. VdllAlive(f)
    BY <1>2, VdllWentAlive
  <2>2. f.crashed = FALSE => VdllIs(f, s)
    BY <1>2 DEF VdllWent, VdllHolds
  <2> QED BY <1>2, <2>1, <2>2 DEF VdllDeleted
<1>3. CASE num = 0
  <2>1. e = VdllFail(d)
    BY <1>3 DEF vdll_delete
  <2>2. VdllFail(d).ok = FALSE
    BY DEF VdllFail, VdllIs, VdllShape
  <2>3. VdllWent(VdllFail(d), d, s, pos)
    BY VdllFailWent
  <2> HIDE DEF e
  <2> QED BY <1>2, <2>1, <2>2, <2>3
<1>4. CASE num # 0 /\ (at.crashed \/ ~at.ok)
  <2>1. e = at
    BY <1>4 DEF vdll_delete
  <2>2. at.crashed = TRUE \/ at.ok = FALSE
    BY <1>1, <1>4 DEF VdllWent, VdllHolds
  <2> HIDE DEF e, at
  <2> QED BY <1>1, <1>2, <2>1, <2>2
<1>5. CASE num # 0 /\ ~at.crashed /\ at.ok
  <2>1. /\ at.crashed = FALSE /\ at.ok = TRUE /\ at.pos = pos /\ at.cap = d.cap
        /\ VdllIs(at, s)
    BY <1>1, <1>5 DEF VdllWent, VdllHolds
  <2>2. num - 1 \in Nat
    BY <1>5
  <2>3. VdllWent(wound, at, s, at.pos + (num - 1))
    <3> HIDE DEF at
    <3> QED BY <2>1, <2>2, VdllWindWent
  <2>4. CASE wound.crashed \/ ~wound.ok
    <3>1. e = wound
      BY <1>5, <2>4 DEF vdll_delete
    <3>2. wound.crashed = TRUE \/ wound.ok = FALSE
      BY <2>3, <2>4 DEF VdllWent, VdllHolds
    <3> HIDE DEF e, at, wound
    <3> QED BY <1>2, <2>3, <3>1, <3>2
  <2>5. CASE ~wound.crashed /\ wound.ok
    <3> HIDE DEF at, wound
    <3>1. /\ VdllIs(wound, s) /\ wound.cap = d.cap /\ wound.pos = pos + (num - 1)
      BY <2>1, <2>3, <2>5 DEF VdllWent, VdllHolds
    <3>2. /\ VdllWent(back, wound, s, wound.pos - (num - 1))
          /\ back.ok = TRUE => wound.pos < wound.cap
      BY <2>2, <3>1, VdllRewindWent
    <3>3. back.ok \in BOOLEAN /\ back.crashed \in BOOLEAN /\ VdllShape(back)
      BY <3>2 DEF VdllWent, VdllHolds
    <3>4. e = IF back.ok THEN VdllUnlinks(back, num) ELSE back
      BY <1>5, <2>5 DEF vdll_delete, at, wound
    <3> HIDE DEF back, e
    <3>5. CASE back.ok = FALSE
      <4>1. e = back
        BY <3>4, <3>5
      <4> QED BY <1>2, <3>2, <3>5, <4>1
    <3>6. CASE back.ok = TRUE /\ back.crashed = TRUE
      <4>1. VdllShape(e) /\ e.crashed = TRUE
        BY <3>3, <3>4, <3>6, VdllUnlinksCrashed
      <4> QED BY <4>1 DEF VdllAlive, VdllDeleted
    <3>7. CASE back.ok = TRUE /\ back.crashed = FALSE
      <4>1. d.cap \in Nat
        BY VdllCursor
      <4>2. VdllIs(back, s) /\ back.pos = pos /\ back.cap = d.cap /\ back.pos + num <= back.cap
        <5>1. /\ VdllIs(back, s) /\ back.cap = wound.cap /\ back.pos = wound.pos - (num - 1)
              /\ wound.pos < wound.cap
          BY <3>2, <3>7 DEF VdllWent, VdllHolds
        <5> QED BY <3>1, <4>1, <5>1
      <4>3. VdllShorter(VdllUnlinks(back, num), back, s, num)
        BY <1>5, <4>2, VdllUnlinksIs
      <4>4. PICK t : VdllIs(e, t) /\ e.ok = TRUE /\ e.cap = d.cap - num
                     /\ VdllIsRun(t, e.cap, s, d.cap, VdllFrom(pos, num))
        BY <3>4, <3>7, <4>2, <4>3 DEF VdllShorter
      <4>5. VdllShape(e) /\ e.crashed = FALSE
        BY <4>4 DEF VdllIs
      <4> QED BY <4>4, <4>5 DEF VdllAlive, VdllDeleted
    <3> QED BY <3>3, <3>5, <3>6, <3>7
  <2> QED BY <2>4, <2>5
<1> QED BY <1>3, <1>4, <1>5

LEMMA VdllInsertIs ==
  ASSUME NEW d, NEW s, VdllIs(d, s), NULL \notin VdllNodes, IsFiniteSet(VdllNodes),
         NEW pos \in Nat, NEW num \in Nat, NEW after \in BOOLEAN, NEW memory \in Nat,
         Min({num, memory}) <= VdllFree(d)
  PROVE  /\ VdllAlive(vdll_insert(d, pos, num, after, memory))
         /\ VdllInserted(vdll_insert(d, pos, num, after, memory), d, s, pos, num, after)
<1> DEFINE at == vdll_seek(d, pos)
           n == Min({num, memory})
           added == VdllLinks(at, n, after)
           e == vdll_insert(d, pos, num, after, memory)
           undone == IF memory > 1 THEN vdll_delete(added, pos + 1, memory) ELSE added
<1> SUFFICES VdllAlive(e) /\ VdllInserted(e, d, s, pos, num, after)
  OBVIOUS
<1>1. VdllWent(at, d, s, pos) /\ (at.ok = TRUE => pos < d.cap \/ (d.cap = 0 /\ pos = 0))
  BY VdllSeekWent
<1>2. CASE num = 0
  <2>1. e = VdllFail(d)
    BY <1>2 DEF vdll_insert
  <2>2. VdllFail(d).ok = FALSE
    BY DEF VdllFail, VdllIs, VdllShape
  <2>3. VdllAlive(VdllFail(d))
    BY VdllFailWent, VdllWentAlive
  <2> HIDE DEF e
  <2> QED BY <2>1, <2>2, <2>3 DEF VdllInserted
<1>3. CASE num # 0 /\ (at.crashed \/ ~at.ok)
  <2>1. e = at
    BY <1>3 DEF vdll_insert
  <2>2. at.crashed = TRUE \/ at.ok = FALSE
    BY <1>1, <1>3 DEF VdllWent, VdllHolds
  <2>3. VdllAlive(at)
    BY <1>1, VdllWentAlive
  <2> HIDE DEF e, at
  <2> QED BY <2>1, <2>2, <2>3 DEF VdllInserted
<1>4. CASE num # 0 /\ ~at.crashed /\ at.ok
  <2>1. /\ at.ok = TRUE /\ at.pos = pos /\ at.cap = d.cap /\ at.next = d.next
        /\ VdllIs(at, s)
    BY <1>1, <1>4 DEF VdllWent, VdllHolds
  <2>2. e = IF num <= memory THEN added ELSE VdllFail(undone)
    BY <1>4 DEF vdll_insert
  <2>3. at.pos < at.cap \/ at.cap = 0
    BY <1>1, <2>1
  <2>4. n \in Nat /\ (num <= memory => n = num)
    BY LeastOfTwo
  <2>5. n <= Cardinality(VdllNodes \ DOMAIN at.next)
    BY <2>1 DEF VdllFree
  <2>6. VdllBeside(at, at.pos, after) = VdllBeside(d, pos, after)
    BY <2>1 DEF VdllBeside
  <2> HIDE DEF at, n
  <2>7. VdllLonger(added, at, s, n, VdllBeside(at, at.pos, after))
    BY <2>1, <2>3, <2>4, <2>5, VdllLinksIs
  <2> HIDE DEF added, e
  <2>8. PICK t : /\ VdllIs(added, t) /\ added.cap = d.cap + n /\ added.ok = TRUE
                 /\ VdllIsRun(s, d.cap, t, added.cap, VdllBeside(d, pos, after))
    BY <2>1, <2>6, <2>7 DEF VdllLonger
  <2>9. VdllAlive(added)
    BY <2>8 DEF VdllAlive, VdllIs
  <2>10. CASE num <= memory
    <3>1. e = added /\ n = num
      BY <2>2, <2>4, <2>10
    <3> QED BY <2>8, <2>9, <3>1 DEF VdllInserted
  <2>11. CASE ~(num <= memory)
    <3>1. VdllAlive(vdll_delete(added, pos + 1, memory))
      BY <2>8, VdllDeleteIs
    <3>2. VdllAlive(undone)
      BY <2>9, <3>1
    <3> HIDE DEF undone
    <3>3. VdllAlive(VdllFail(undone)) /\ VdllFail(undone).ok = FALSE
      BY <3>2, VdllFailAlive
    <3>4. e = VdllFail(undone)
      BY <2>2, <2>11
    <3> QED BY <3>3, <3>4 DEF VdllInserted
  <2> QED BY <2>10, <2>11
<1> QED BY <1>2, <1>3, <1>4

-----------------------------------------------------------------------------
(* What the links say.                                                     *)

LEMMA VdllContentsAre ==
  ASSUME NEW d, NEW s, VdllIs(d, s), NULL \notin VdllNodes
  PROVE  VdllContents(d) = s
<1> DEFINE first == CHOOSE x \in VdllHeads(d) : TRUE
           Walk(r) == r = [i \in 1..d.cap |-> IF i = 1 THEN first ELSE d.next[r[i - 1]]]
<1>1. /\ d.cap \in Nat /\ s \in [1..d.cap -> VdllNodes]
      /\ \A i, j \in 1..d.cap : s[i] = s[j] => i = j
      /\ DOMAIN d.prev = {s[i] : i \in 1..d.cap}
      /\ \A i \in 1..d.cap : d.next[s[i]] = VdllNode(s, d.cap, i + 1)
                             /\ d.prev[s[i]] = VdllNode(s, d.cap, i - 1)
  BY DEF VdllIs, VdllChain
<1>2. ASSUME 1 <= d.cap PROVE first = s[1]
  <2>1. 1 \in 1..d.cap /\ s[1] \in DOMAIN d.prev /\ d.prev[s[1]] = NULL
    BY <1>1, <1>2 DEF VdllNode
  <2>2. \A i \in 1..d.cap : d.prev[s[i]] = NULL => i = 1
    <3> TAKE i \in 1..d.cap
    <3> HAVE d.prev[s[i]] = NULL
    <3>1. VdllNode(s, d.cap, i - 1) = NULL
      BY <1>1
    <3>2. CASE i # 1
      <4>1. i - 1 \in 1..d.cap
        BY <1>1, <3>2
      <4>2. s[i - 1] = NULL
        BY <3>1, <4>1 DEF VdllNode
      <4> QED BY <1>1, <4>1, <4>2
    <3> QED BY <3>2
  <2>3. VdllHeads(d) = {s[1]}
    BY <1>1, <2>1, <2>2 DEF VdllHeads
  <2> QED BY <2>3
<1> HIDE DEF first
<1>3. ASSUME NEW i \in 1..d.cap, i # 1
      PROVE  i - 1 \in 1..d.cap /\ d.next[s[i - 1]] = s[i]
  <2> DEFINE j == i - 1
  <2>1. j \in 1..d.cap /\ j + 1 = i
    BY <1>1, <1>3
  <2> HIDE DEF j
  <2>2. d.next[s[j]] = s[i]
    BY <1>1, <2>1 DEF VdllNode
  <2> QED BY <2>1, <2>2 DEF j
<1>4. Walk(s)
  <2>1. \A i \in 1..d.cap : s[i] = IF i = 1 THEN first ELSE d.next[s[i - 1]]
    <3> TAKE i \in 1..d.cap
    <3>1. CASE i = 1
      <4>1. 1 <= d.cap
        BY <1>1, <3>1
      <4> QED BY <1>2, <3>1, <4>1
    <3> QED BY <1>3, <3>1
  <2>2. s = [i \in 1..d.cap |-> s[i]]
    BY <1>1
  <2> QED BY <2>1, <2>2
<1>5. ASSUME NEW r, Walk(r) PROVE r = s
  <2> DEFINE S == {i \in Nat : i + 1 \in 1..d.cap => r[i + 1] = s[i + 1]}
  <2>1. \A i \in 1..d.cap : r[i] = IF i = 1 THEN first ELSE d.next[r[i - 1]]
    BY <1>5
  <2>2. 0 \in S
    BY <1>1, <1>2, <2>1
  <2>3. ASSUME NEW i \in S \cap Nat PROVE i + 1 \in S
    <3> SUFFICES ASSUME (i + 1) + 1 \in 1..d.cap PROVE r[(i + 1) + 1] = s[(i + 1) + 1]
      OBVIOUS
    <3> DEFINE k == (i + 1) + 1
    <3>1. k # 1 /\ k - 1 = i + 1 /\ i + 1 \in 1..d.cap
      BY <1>1
    <3>2. r[i + 1] = s[i + 1]
      BY <3>1
    <3> HIDE DEF k
    <3>3. r[k] = d.next[r[k - 1]] /\ d.next[s[k - 1]] = s[k]
      BY <1>3, <2>1, <3>1 DEF k
    <3> QED BY <3>1, <3>2, <3>3 DEF k
  <2>4. Nat \subseteq S
    <3> HIDE DEF S
    <3> QED BY <2>2, <2>3, SetInduction
  <2>5. \A i \in 1..d.cap : r[i] = s[i]
    <3> TAKE i \in 1..d.cap
    <3>1. i - 1 \in Nat /\ (i - 1) + 1 = i
      BY <1>1
    <3>2. i - 1 \in S
      BY <2>4, <3>1
    <3> QED BY <3>1, <3>2
  <2>6. r = [i \in 1..d.cap |-> r[i]]
    BY <1>5
  <2> HIDE DEF S
  <2> QED BY <1>1, <2>5, <2>6, ZenonT(60)
<1>6. VdllContents(d) = CHOOSE r : Walk(r)
  BY DEF VdllContents, first
<1> HIDE DEF Walk
<1> QED BY <1>4, <1>5, <1>6

LEMMA VdllRunIs ==
  ASSUME NEW t, NEW m, NEW s, NEW n, NEW at, VdllIsRun(t, m, s, n, at)
  PROVE  VdllRun(t, s, at) /\ at \in 0..m /\ at \in 0..n /\ Len(t) = m /\ Len(s) = n
<1>1. /\ m \in Nat /\ n \in Nat /\ m <= n /\ at \in 0..m
      /\ t \in [1..m -> VdllNodes] /\ s \in [1..n -> VdllNodes]
      /\ \A i \in 1..at : i \in 1..m /\ i \in 1..n /\ t[i] = s[i]
      /\ \A i \in at + 1..m : i \in 1..m /\ i + (n - m) \in 1..n /\ t[i] = s[i + (n - m)]
  BY DEF VdllIsRun
<1>2. t \in Seq(VdllNodes) /\ s \in Seq(VdllNodes) /\ Len(t) = m /\ Len(s) = n
  BY <1>1
<1> DEFINE a == SubSeq(s, 1, at)
           from == at + n - m + 1
           b == SubSeq(s, from, n)
<1>3. /\ a \in Seq(VdllNodes) /\ Len(a) = at
      /\ \A i \in 1..at : a[i] = s[i]
  <2>1. \A i \in 1..at : s[i] \in VdllNodes
    BY <1>1
  <2>2. /\ a \in Seq(VdllNodes) /\ Len(a) = IF 1 <= at THEN at - 1 + 1 ELSE 0
        /\ \A i \in 1..at - 1 + 1 : a[i] = s[1 + i - 1]
    BY <1>1, <2>1, SubSeqProperties
  <2> HIDE DEF a
  <2> QED BY <1>1, <2>2
<1>4. /\ b \in Seq(VdllNodes) /\ Len(b) = m - at
      /\ \A i \in 1..m - at : b[i] = s[from + i - 1]
  <2>1. \A i \in from..n : s[i] \in VdllNodes
    BY <1>1
  <2>2. from \in Int /\ n \in Int
    BY <1>1
  <2>3. /\ b \in Seq(VdllNodes) /\ Len(b) = IF from <= n THEN n - from + 1 ELSE 0
        /\ \A i \in 1..n - from + 1 : b[i] = s[from + i - 1]
    BY <2>1, <2>2, SubSeqProperties
  <2> HIDE DEF b
  <2>4. n - from + 1 = m - at /\ (from <= n <=> at < m)
    BY <1>1
  <2> HIDE DEF from
  <2>5. Len(b) = m - at
    BY <1>1, <2>3, <2>4
  <2> QED BY <2>3, <2>4, <2>5
<1> HIDE DEF a, b
<1>5. /\ a \o b \in Seq(VdllNodes) /\ Len(a \o b) = m
      /\ \A i \in 1..m : (a \o b)[i] = IF i <= at THEN a[i] ELSE b[i - at]
  <2>1. /\ a \o b \in Seq(VdllNodes) /\ Len(a \o b) = Len(a) + Len(b)
        /\ \A i \in 1..Len(a) + Len(b) : (a \o b)[i] = IF i <= Len(a) THEN a[i] ELSE b[i - Len(a)]
    BY <1>3, <1>4, ConcatProperties
  <2>2. Len(a) + Len(b) = m
    BY <1>1, <1>3, <1>4
  <2> QED BY <1>3, <2>1, <2>2
<1>6. \A i \in 1..m : t[i] = (a \o b)[i]
  <2> TAKE i \in 1..m
  <2>1. CASE i <= at
    <3>1. i \in 1..at
      BY <1>1, <2>1
    <3> QED BY <1>1, <1>3, <1>5, <2>1, <3>1
  <2>2. CASE i > at
    <3>1. i \in at + 1..m /\ i - at \in 1..m - at /\ from + (i - at) - 1 = i + (n - m)
          /\ ~(i <= at)
      BY <1>1, <2>2
    <3> HIDE DEF from
    <3>2. b[i - at] = s[i + (n - m)]
      BY <1>4, <3>1
    <3> QED BY <1>1, <1>5, <3>1, <3>2
  <2>3. i <= at \/ i > at
    BY <1>1
  <2> QED BY <2>1, <2>2, <2>3
<1>7. t = a \o b
  BY <1>2, <1>5, <1>6, SeqEqual
<1>8. from = at + Len(s) - Len(t) + 1
  BY <1>2
<1> QED BY <1>1, <1>2, <1>7, <1>8 DEF VdllRun, a, b

LEMMA VdllIsLinked ==
  ASSUME NEW d, NEW s, VdllIs(d, s), NULL \notin VdllNodes
  PROVE  /\ Len(s) = Cardinality(DOMAIN d.next) /\ d.cap = Len(s)
         /\ \A i \in DOMAIN s :
              /\ d.prev[s[i]] = IF i = 1 THEN NULL ELSE s[i - 1]
              /\ d.next[s[i]] = IF i = Len(s) THEN NULL ELSE s[i + 1]
         /\ d.ptr = IF d.pos = Len(s) THEN NULL ELSE s[d.pos + 1]
<1>1. /\ d.cap \in Nat /\ s \in [1..d.cap -> VdllNodes]
      /\ \A i, j \in 1..d.cap : s[i] = s[j] => i = j
      /\ DOMAIN d.next = {s[i] : i \in 1..d.cap}
      /\ \A i \in 1..d.cap : d.next[s[i]] = VdllNode(s, d.cap, i + 1)
                             /\ d.prev[s[i]] = VdllNode(s, d.cap, i - 1)
      /\ d.pos \in 0..d.cap /\ d.ptr = VdllNode(s, d.cap, d.pos + 1)
  BY DEF VdllIs, VdllChain
<1>2. Len(s) = d.cap /\ DOMAIN s = 1..d.cap
  BY <1>1
<1>3. Cardinality(DOMAIN d.next) = d.cap
  <2>1. s \in Bijection(1..d.cap, DOMAIN d.next)
    BY <1>1 DEF Bijection, Injection, Surjection, IsInjective
  <2>2. ExistsBijection(1..d.cap, DOMAIN d.next)
    BY <2>1 DEF ExistsBijection
  <2>3. IsFiniteSet(1..d.cap) /\ Cardinality(1..d.cap) = d.cap
    <3>1. d.cap \in Int /\ 1 \in Int
      BY <1>1
    <3>2. IsFiniteSet(1..d.cap)
          /\ Cardinality(1..d.cap) = IF 1 > d.cap THEN 0 ELSE d.cap - 1 + 1
      BY <3>1, FS_Interval
    <3>3. (IF 1 > d.cap THEN 0 ELSE d.cap - 1 + 1) = d.cap
      BY <1>1
    <3> QED BY <3>2, <3>3
  <2> QED BY <2>2, <2>3, FS_Bijection
<1>4. ASSUME NEW i \in 1..d.cap
      PROVE  /\ d.prev[s[i]] = IF i = 1 THEN NULL ELSE s[i - 1]
             /\ d.next[s[i]] = IF i = d.cap THEN NULL ELSE s[i + 1]
  <2>1. VdllNode(s, d.cap, i - 1) = IF i = 1 THEN NULL ELSE s[i - 1]
    BY <1>1 DEF VdllNode
  <2>2. VdllNode(s, d.cap, i + 1) = IF i = d.cap THEN NULL ELSE s[i + 1]
    BY <1>1 DEF VdllNode
  <2> QED BY <1>1, <2>1, <2>2
<1>5. d.ptr = IF d.pos = d.cap THEN NULL ELSE s[d.pos + 1]
  BY <1>1 DEF VdllNode
<1> QED BY <1>2, <1>3, <1>4, <1>5

-----------------------------------------------------------------------------
(* Every course of calls.                                                  *)

VdllInv == vdll # NULL => \E s : VdllHolds(vdll, s)

LEMMA VdllAliveHolds ==
  ASSUME NEW e, VdllAlive(e)
  PROVE  \E t : VdllHolds(e, t)
<1>1. CASE e.crashed = FALSE
  BY <1>1 DEF VdllAlive, VdllHolds
<1>2. CASE e.crashed = TRUE
  BY <1>2 DEF VdllAlive, VdllHolds
<1> QED BY <1>1, <1>2 DEF VdllAlive

(* A call that only moves the cursor.                                      *)
VdllLooked(e, s) == VdllAlive(e) /\ (e.crashed = FALSE => VdllIs(e, s))

LEMMA VdllLookIs ==
  ASSUME NEW s, VdllIs(vdll, s), NULL \notin VdllNodes, NEW pos \in Nat,
         VdllSeek(pos) \/ VdllGet(pos) \/ VdllSet(pos)
  PROVE  VdllLooked(vdll', s)
<1> DEFINE at == vdll_seek(vdll, pos)
<1>1. VdllHolds(at, s) /\ at.ok \in BOOLEAN
  BY VdllSeekWent DEF VdllWent
<1>2. at.crashed \in BOOLEAN /\ VdllShape(at)
  BY <1>1 DEF VdllHolds
<1>3. ASSUME NEW b \in BOOLEAN, at.crashed = TRUE => b = TRUE,
             vdll' = [at EXCEPT !.crashed = b]
      PROVE  VdllHolds(vdll', s) /\ vdll'.ok \in BOOLEAN
  <2> HIDE DEF at
  <2> QED BY <1>1, <1>3, VdllCrashed
<1>4. VdllHolds(vdll', s) /\ vdll'.ok \in BOOLEAN
  <2>1. CASE VdllSeek(pos)
    BY <1>1, <2>1 DEF VdllSeek
  <2>2. CASE VdllGet(pos)
    <3> DEFINE b == at.crashed \/ ~at.ok \/ at.ptr = NULL
    <3>1. vdll' = [at EXCEPT !.crashed = b]
      BY <1>2, <2>2 DEF VdllGet, VdllShape
    <3>2. b \in BOOLEAN /\ (at.crashed = TRUE => b = TRUE)
      BY <1>2
    <3> HIDE DEF at, b
    <3> QED BY <1>3, <3>1, <3>2
  <2>3. CASE VdllSet(pos)
    <3> DEFINE b == at.crashed \/ (at.ok /\ at.ptr = NULL)
    <3>1. vdll' = [at EXCEPT !.crashed = b]
      BY <1>2, <2>3 DEF VdllSet, VdllShape
    <3>2. b \in BOOLEAN /\ (at.crashed = TRUE => b = TRUE)
      BY <1>2
    <3> HIDE DEF at, b
    <3> QED BY <1>3, <3>1, <3>2
  <2> QED BY <2>1, <2>2, <2>3
<1> QED BY <1>4 DEF VdllLooked, VdllAlive, VdllHolds

LEMMA VdllGrowIs ==
  ASSUME NEW s, VdllIs(vdll, s), NULL \notin VdllNodes, IsFiniteSet(VdllNodes),
         NEW num \in Nat, NEW memory \in Nat, VdllGrow(num, memory)
  PROVE  /\ VdllAlive(vdll')
         /\ VdllInserted(vdll', vdll, s, Max({vdll.cap - 1, 0}), num, TRUE)
<1> DEFINE last == Max({vdll.cap - 1, 0})
<1>1. last \in Nat
  BY VdllCursor, GreatestOfTwo
<1>2. vdll' = vdll_insert(vdll, last, num, TRUE, memory) /\ Min({num, memory}) <= VdllFree(vdll)
  BY DEF VdllGrow
<1> HIDE DEF last
<1>3. VdllAlive(vdll') /\ VdllInserted(vdll', vdll, s, last, num, TRUE)
  BY <1>1, <1>2, VdllInsertIs
<1> QED BY <1>3 DEF last

LEMMA VdllShrinkIs ==
  ASSUME NEW s, VdllIs(vdll, s), NULL \notin VdllNodes, NEW num \in Nat, VdllShrink(num)
  PROVE  VdllAlive(vdll') /\ VdllDeleted(vdll', vdll, s, vdll.cap - num, num)
<1>1. vdll.cap \in Nat
  BY VdllCursor
<1>2. CASE num <= vdll.cap
  <2>1. vdll' = vdll_delete(vdll, vdll.cap - num, num)
    BY <1>2 DEF VdllShrink
  <2>2. vdll.cap - num \in Nat
    BY <1>1, <1>2
  <2> QED BY <2>1, <2>2, VdllDeleteIs
<1>3. CASE ~(num <= vdll.cap)
  <2>1. vdll' = VdllFail(vdll)
    BY <1>3 DEF VdllShrink
  <2>2. VdllFail(vdll).ok = FALSE
    BY DEF VdllFail, VdllIs, VdllShape
  <2>3. VdllWent(VdllFail(vdll), vdll, s, 0)
    BY VdllFailWent
  <2>4. VdllAlive(vdll') /\ vdll'.ok = FALSE /\ (vdll'.crashed = FALSE => VdllIs(vdll', s))
    BY <2>1, <2>2, <2>3, VdllWentAlive DEF VdllWent, VdllHolds
  <2> QED BY <2>4 DEF VdllDeleted
<1> QED BY <1>2, <1>3

(* Every action is a call, but the two that begin and end.                 *)
LEMMA VdllNextCalls ==
  ASSUME VdllNext, vdll # NULL, vdll' # NULL
  PROVE  /\ ~vdll.crashed
         /\ \A s : VdllIs(vdll, s) => VdllAlive(vdll')
<1> USE VdllAssumption
<1>1. VdllNumbers \subseteq Nat
  BY DEF VdllNumbers
<1>2. ~vdll.crashed
  BY DEF VdllNext, VdllCreate, VdllDestroy
<1>3. ASSUME NEW s, VdllIs(vdll, s) PROVE VdllAlive(vdll')
  <2>1. ASSUME NEW pos \in VdllNumbers, VdllSeek(pos) \/ VdllGet(pos) \/ VdllSet(pos)
        PROVE  VdllAlive(vdll')
    BY <1>1, <1>3, <2>1, VdllLookIs DEF VdllLooked
  <2>2. ASSUME NEW pos \in VdllNumbers, NEW num \in VdllNumbers, VdllDelete(pos, num)
        PROVE  VdllAlive(vdll')
    BY <1>1, <1>3, <2>2, VdllDeleteIs DEF VdllDelete
  <2>3. ASSUME NEW pos \in VdllNumbers, NEW num \in VdllNumbers, NEW memory \in VdllNumbers,
               VdllInsert(pos, num, memory)
        PROVE  VdllAlive(vdll')
    BY <1>1, <1>3, <2>3, VdllInsertIs DEF VdllInsert
  <2>4. ASSUME NEW num \in VdllNumbers, VdllShrink(num) PROVE VdllAlive(vdll')
    BY <1>1, <1>3, <2>4, VdllShrinkIs
  <2>5. ASSUME NEW num \in VdllNumbers, NEW memory \in VdllNumbers, VdllGrow(num, memory)
        PROVE  VdllAlive(vdll')
    BY <1>1, <1>3, <2>5, VdllGrowIs
  <2> QED BY <2>1, <2>2, <2>3, <2>4, <2>5 DEF VdllNext, VdllCreate, VdllDestroy
<1> QED BY <1>2, <1>3

LEMMA VdllInvKeeps ==
  ASSUME VdllInv, [VdllNext]_vdll
  PROVE  VdllInv'
<1> SUFFICES ASSUME vdll' # NULL PROVE \E s : VdllHolds(vdll', s)
  BY DEF VdllInv
<1>1. CASE UNCHANGED vdll
  BY <1>1 DEF VdllInv
<1>2. CASE VdllNext /\ vdll = NULL
  <2>1. vdll' = vdll_init
    BY <1>2 DEF VdllNext, VdllCreate, VdllDestroy
  <2>2. VdllChain(<<>>, 0, [n \in {} |-> NULL], [n \in {} |-> NULL])
    <3> DEFINE links == [n \in {} |-> NULL]
    <3>1. DOMAIN links = {<<>>[i] : i \in 1..0} /\ 0 \in Nat /\ <<>> \in [1..0 -> VdllNodes]
      OBVIOUS
    <3> HIDE DEF links
    <3> QED BY <3>1 DEF VdllChain, links
  <2>3. VdllHolds(vdll_init, <<>>)
    BY <2>2 DEF vdll_init, VdllHolds, VdllIs, VdllShape, VdllNode
  <2> QED BY <2>1, <2>3
<1>3. CASE VdllNext /\ vdll # NULL
  <2>1. PICK s : VdllHolds(vdll, s)
    BY <1>3 DEF VdllInv
  <2>2. VdllIs(vdll, s)
    BY <1>3, <2>1, VdllNextCalls DEF VdllHolds
  <2> QED BY <1>3, <2>2, VdllNextCalls, VdllAliveHolds
<1> QED BY <1>1, <1>2, <1>3

LEMMA VdllHasInv == VdllSpec => []VdllInv
<1>1. VdllInit => VdllInv
  BY DEF VdllInit, VdllInv
<1> QED BY <1>1, VdllInvKeeps, PTL DEF VdllSpec

(* For all nodes and all numbers a call can be given: the links lead       *)
(* through the same nodes both ways, cap of them, and the cursor is on the *)
(* one its number says, or the cursor has run off the end in a vdll_delete *)
(* (vdll_wind 77-81) and followed a null pointer.                          *)
THEOREM VdllStaysLinked == VdllSpec => []VdllLinked
<1>1. VdllInv => VdllLinked
  <2> SUFFICES ASSUME VdllInv, vdll # NULL, ~vdll.crashed PROVE VdllLinked
    BY DEF VdllLinked
  <2>1. PICK s : VdllHolds(vdll, s)
    BY DEF VdllInv
  <2>2. VdllIs(vdll, s)
    BY <2>1 DEF VdllHolds
  <2>3. VdllContents(vdll) = s
    BY <2>2, VdllContentsAre, VdllAssumption
  <2> QED BY <2>2, <2>3, VdllIsLinked, VdllAssumption DEF VdllLinked
<1> QED BY <1>1, VdllHasInv, PTL

(* For all nodes and all numbers: where each call that succeeds puts        *)
(* elements in or takes them out, that no other moves, and that seeks,     *)
(* gets, sets and refused deletions move none (_vdll_insert 214-264,       *)
(* vdll_delete 266-315, vdll_grow 317-331, vdll_shrink 333-343): not the   *)
(* places vdll.h (73-82) tells.                                            *)
THEOREM VdllMovesNoOther == VdllSpec => VdllEdits
<1> DEFINE Edit ==
    vdll # NULL /\ vdll' # NULL /\ ~vdll'.crashed =>
      LET old == VdllContents(vdll)
          new == VdllContents(vdll')
      IN \A pos, num, memory \in VdllNumbers :
            /\ VdllSeek(pos) \/ VdllGet(pos) \/ VdllSet(pos) => new = old
            /\ ~vdll'.ok /\ (VdllDelete(pos, num) \/ VdllShrink(num)) => new = old
            /\ vdll'.ok /\ VdllInsert(pos, num, memory) =>
                 VdllAdded(old, new, IF Len(old) = 0 THEN 0 ELSE pos + 1, num)
            /\ vdll'.ok /\ VdllGrow(num, memory) =>
                 VdllAdded(old, new, Max({Len(old) - 1, 0}), num)
            /\ vdll'.ok /\ VdllDelete(pos, num) =>
                 VdllRemoved(old, new, Max({pos + 1 - num, 0}), num)
            /\ vdll'.ok /\ VdllShrink(num) =>
                 VdllRemoved(old, new, Max({Len(old) - num + 1 - num, 0}), num)
<1> USE VdllAssumption
<1>1. VdllInv /\ VdllInv' /\ [VdllNext]_vdll => [Edit]_vdll
  <2> DEFINE old == VdllContents(vdll)
             new == VdllContents(vdll')
             Looks(pos) == VdllSeek(pos) \/ VdllGet(pos) \/ VdllSet(pos) => new = old
             Refuses(pos, num) ==
               ~vdll'.ok /\ (VdllDelete(pos, num) \/ VdllShrink(num)) => new = old
             Inserts(pos, num, memory) ==
               vdll'.ok /\ VdllInsert(pos, num, memory) =>
                 VdllAdded(old, new, IF Len(old) = 0 THEN 0 ELSE pos + 1, num)
             Grows(num, memory) ==
               vdll'.ok /\ VdllGrow(num, memory) =>
                 VdllAdded(old, new, Max({Len(old) - 1, 0}), num)
             Deletes(pos, num) ==
               vdll'.ok /\ VdllDelete(pos, num) =>
                 VdllRemoved(old, new, Max({pos + 1 - num, 0}), num)
             Shrinks(num) ==
               vdll'.ok /\ VdllShrink(num) =>
                 VdllRemoved(old, new, Max({Len(old) - num + 1 - num, 0}), num)
  <2> SUFFICES ASSUME VdllInv, VdllNext, vdll # NULL, vdll' # NULL, ~vdll'.crashed,
                      NEW pos \in VdllNumbers, NEW num \in VdllNumbers,
                      NEW memory \in VdllNumbers
               PROVE  /\ Looks(pos) /\ Refuses(pos, num) /\ Inserts(pos, num, memory)
                      /\ Grows(num, memory) /\ Deletes(pos, num) /\ Shrinks(num)
    OBVIOUS
  <2>1. PICK s : VdllHolds(vdll, s)
    BY DEF VdllInv
  <2>2. VdllIs(vdll, s)
    BY <2>1, VdllNextCalls DEF VdllHolds
  <2>3. VdllAlive(vdll')
    BY <2>2, VdllNextCalls
  <2>4. vdll'.crashed = FALSE /\ vdll'.ok \in BOOLEAN
    BY <2>3 DEF VdllAlive
  <2>5. pos \in Nat /\ num \in Nat /\ memory \in Nat
    BY DEF VdllNumbers
  <2>6. old = s /\ vdll.cap \in Nat /\ Len(old) = vdll.cap
    <3>1. old = s
      BY <2>2, VdllContentsAre
    <3>2. vdll.cap \in Nat /\ s \in [1..vdll.cap -> VdllNodes]
      BY <2>2 DEF VdllIs, VdllChain
    <3> HIDE DEF old
    <3>3. Len(s) = vdll.cap
      BY <3>2
    <3> QED BY <3>1, <3>2, <3>3
  <2>7. ASSUME NEW t, VdllIs(vdll', t) PROVE new = t
    BY <2>7, VdllContentsAre
  <2>8. ASSUME NEW at, NEW t, VdllIs(vdll', t), vdll'.cap = vdll.cap + num,
               VdllIsRun(s, vdll.cap, t, vdll'.cap, at)
        PROVE  VdllAdded(old, new, at, num)
    BY <2>6, <2>7, <2>8, VdllRunIs DEF VdllAdded
  <2>9. ASSUME NEW at, NEW t, VdllIs(vdll', t), vdll'.cap = vdll.cap - num,
               VdllIsRun(t, vdll'.cap, s, vdll.cap, at)
        PROVE  VdllRemoved(old, new, at, num)
    <3>1. VdllRun(t, s, at) /\ Len(t) = vdll'.cap /\ Len(s) = vdll.cap
      BY <2>9, VdllRunIs
    <3> HIDE DEF new, old
    <3> QED BY <2>5, <2>6, <2>7, <2>9, <3>1 DEF VdllRemoved
  <2>10. ASSUME NEW p \in Nat PROVE VdllFrom(p, num) = Max({p + 1 - num, 0})
    BY <2>5, GreatestOfTwo DEF VdllFrom
  <2>11. Looks(pos)
    BY <2>2, <2>4, <2>5, <2>6, <2>7, VdllLookIs DEF VdllLooked
  <2>12. ASSUME VdllInsert(pos, num, memory), vdll'.ok
         PROVE  VdllAdded(old, new, IF Len(old) = 0 THEN 0 ELSE pos + 1, num)
    <3>1. VdllInserted(vdll', vdll, s, pos, num, FALSE)
      BY <2>2, <2>5, <2>12, VdllInsertIs DEF VdllInsert
    <3>2. VdllBeside(vdll, pos, FALSE) = IF Len(old) = 0 THEN 0 ELSE pos + 1
      BY <2>6 DEF VdllBeside
    <3> HIDE DEF new, old
    <3> QED BY <2>4, <2>8, <2>12, <3>1, <3>2 DEF VdllInserted
  <2>13. ASSUME VdllGrow(num, memory), vdll'.ok
         PROVE  VdllAdded(old, new, Max({Len(old) - 1, 0}), num)
    <3>1. VdllInserted(vdll', vdll, s, Max({vdll.cap - 1, 0}), num, TRUE)
      BY <2>2, <2>5, <2>13, VdllGrowIs
    <3>2. VdllBeside(vdll, Max({vdll.cap - 1, 0}), TRUE) = Max({Len(old) - 1, 0})
      <4> HIDE DEF old
      <4>1. Max({vdll.cap - 1, 0}) = IF vdll.cap - 1 >= 0 THEN vdll.cap - 1 ELSE 0
        BY <2>6, GreatestOfTwo
      <4>2. vdll.cap = 0 => Max({vdll.cap - 1, 0}) = 0
        BY <4>1
      <4> QED BY <2>6, <4>2 DEF VdllBeside
    <3> HIDE DEF new, old
    <3> QED BY <2>4, <2>8, <2>13, <3>1, <3>2 DEF VdllInserted
  <2>14. ASSUME VdllDelete(pos, num)
         PROVE  /\ ~vdll'.ok => new = old
                /\ vdll'.ok => VdllRemoved(old, new, Max({pos + 1 - num, 0}), num)
    <3>1. VdllDeleted(vdll', vdll, s, pos, num)
      BY <2>2, <2>5, <2>14, VdllDeleteIs DEF VdllDelete
    <3> HIDE DEF new, old
    <3>2. ~vdll'.ok => new = old
      BY <2>4, <2>6, <2>7, <3>1 DEF VdllDeleted
    <3> QED BY <2>4, <2>5, <2>9, <2>10, <3>1, <3>2 DEF VdllDeleted
  <2>15. ASSUME VdllShrink(num)
         PROVE  /\ ~vdll'.ok => new = old
                /\ vdll'.ok => VdllRemoved(old, new, Max({Len(old) - num + 1 - num, 0}), num)
    <3>1. VdllDeleted(vdll', vdll, s, vdll.cap - num, num)
      BY <2>2, <2>5, <2>15, VdllShrinkIs
    <3> HIDE DEF new, old
    <3>2. ~vdll'.ok => new = old
      BY <2>4, <2>6, <2>7, <3>1 DEF VdllDeleted
    <3>3. ASSUME vdll'.ok
          PROVE  VdllRemoved(old, new, Max({Len(old) - num + 1 - num, 0}), num)
      <4>1. PICK t : /\ VdllIs(vdll', t) /\ vdll'.cap = vdll.cap - num
                     /\ VdllIsRun(t, vdll'.cap, s, vdll.cap, VdllFrom(vdll.cap - num, num))
        BY <2>4, <3>1, <3>3 DEF VdllDeleted
      <4>2. vdll.cap - num \in Nat
        BY <4>1 DEF VdllIs, VdllChain
      <4>3. VdllFrom(vdll.cap - num, num) = Max({vdll.cap - num + 1 - num, 0})
        BY <2>10, <4>2
      <4> QED BY <2>6, <2>9, <4>1, <4>3
    <3> QED BY <3>2, <3>3
  <2> HIDE DEF new, old
  <2> QED BY <2>11, <2>12, <2>13, <2>14, <2>15
<1>2. VdllInv /\ [VdllNext]_vdll => VdllInv'
  BY VdllInvKeeps
<1> QED BY <1>1, VdllHasInv, PTL DEF VdllSpec, VdllEdits

-----------------------------------------------------------------------------
(* Vht: walks through the slots.                                           *)

(* A multiple of c by an odd number comes only from a multiple of c: so it *)
(* is for powers of two.                                                   *)
VhtMultiple(m, c) == \E q \in Int : m = c * q
VhtSpreads(c) ==
  \A k, m \in Int : k % 2 = 1 /\ VhtMultiple(m * k, c) => VhtMultiple(m, c)

LEMMA OneSpreads == VhtSpreads(1)
BY DEF VhtSpreads, VhtMultiple

LEMMA HalfOf ==
  ASSUME NEW m \in Int
  PROVE  \E a \in Int : m = 2 * a \/ m = 2 * a + 1
<1>1. m \div 2 \in Int /\ (m = 2 * (m \div 2) \/ m = 2 * (m \div 2) + 1)
  OBVIOUS
<1> QED BY <1>1

LEMMA TwiceSpreads ==
  ASSUME NEW c \in Nat, VhtSpreads(c)
  PROVE  VhtSpreads(2 * c)
<1> SUFFICES ASSUME NEW k \in Int, NEW m \in Int, k % 2 = 1, VhtMultiple(m * k, 2 * c)
             PROVE  VhtMultiple(m, 2 * c)
  BY DEF VhtSpreads
<1>1. PICK q \in Int : m * k = (2 * c) * q
  BY DEF VhtMultiple
<1>2. PICK b \in Int : k = 2 * b + 1
  <2>1. \A b \in Int : k # 2 * b
    OBVIOUS
  <2> QED BY <2>1, HalfOf
<1>3. PICK a \in Int : m = 2 * a \/ m = 2 * a + 1
  BY HalfOf
<1>4. (2 * c) * q = 2 * (c * q) /\ c * q \in Int
  OBVIOUS
<1>5. m # 2 * a + 1
  <2> SUFFICES ASSUME m = 2 * a + 1 PROVE FALSE
    OBVIOUS
  <2>1. m * k = (2 * a + 1) * (2 * b + 1)
    BY <1>2
  <2>2. (2 * a + 1) * (2 * b + 1) = 2 * (2 * (a * b) + a + b) + 1
    OBVIOUS
  <2>3. 2 * (a * b) + a + b \in Int
    OBVIOUS
  <2>4. \A u, v \in Int : 2 * u + 1 # 2 * v
    OBVIOUS
  <2>5. 2 * (2 * (a * b) + a + b) + 1 # 2 * (c * q)
    BY <1>4, <2>3, <2>4
  <2> QED BY <1>1, <1>4, <2>1, <2>2, <2>5
<1>6. m = 2 * a
  BY <1>3, <1>5
<1>7. a * k = c * q
  <2>1. m * k = 2 * (a * k) /\ a * k \in Int
    <3>1. (2 * a) * k = 2 * (a * k)
      OBVIOUS
    <3> QED BY <1>6, <3>1
  <2>2. \A u, v \in Int : 2 * u = 2 * v => u = v
    OBVIOUS
  <2>3. 2 * (a * k) = 2 * (c * q)
    BY <1>1, <1>4, <2>1
  <2> QED BY <1>4, <2>1, <2>2, <2>3
<1>8. PICK r \in Int : a = c * r
  BY <1>7 DEF VhtSpreads, VhtMultiple
<1>9. m = (2 * c) * r
  <2>1. 2 * (c * r) = (2 * c) * r
    OBVIOUS
  <2> QED BY <1>6, <1>8, <2>1
<1> QED BY <1>9 DEF VhtMultiple

LEMMA InitialSpreads == VhtSpreads(VhtInitial) /\ VhtInitial \in Nat /\ VhtInitial >= 2
<1>1. VhtSpreads(2)
  BY OneSpreads, TwiceSpreads, 2 * 1 = 2
<1>2. VhtSpreads(4)
  BY <1>1, TwiceSpreads, 2 * 2 = 4
<1>3. VhtSpreads(8)
  BY <1>2, TwiceSpreads, 2 * 4 = 8
<1>4. VhtSpreads(16)
  BY <1>3, TwiceSpreads, 2 * 8 = 16
<1> QED BY <1>1, <1>2, <1>3, <1>4, VhtAssumption

(* A hash, or the salt.                                                    *)
VhtOdd(h) == h.offset \in Nat /\ h.iterate \in Nat /\ h.iterate % 2 = 1

LEMMA HashesAreOdd == VhtOdd(VhtSalt) /\ \A key \in VhtKeys : VhtOdd(VhtHash[key])
BY VhtAssumption DEF VhtOdd

VhtCapacity(c) == c \in Nat /\ c # 0 /\ VhtSpreads(c)

LEMMA VhtProbeIs ==
  ASSUME NEW t, VhtCapacity(t.cap), NEW h, VhtOdd(h), NEW i \in Nat
  PROVE  VhtProbe(t, h, i) \in 0..t.cap - 1
<1>1. i * h.iterate \in Nat
  BY DEF VhtOdd
<1>2. h.offset + i * h.iterate \in Nat
  BY <1>1 DEF VhtOdd
<1> DEFINE x == h.offset + i * h.iterate
<1> HIDE DEF x
<1>3. x % t.cap \in 0..t.cap - 1
  BY <1>2 DEF VhtCapacity, x
<1> QED BY <1>3 DEF VhtProbe, x

(* A walk of cap steps is not twice at the same slot.                      *)
LEMMA VhtProbesDiffer ==
  ASSUME NEW t, VhtCapacity(t.cap), NEW h, VhtOdd(h), NEW i \in Nat, NEW j \in Nat,
         i - j < t.cap, j - i < t.cap, VhtProbe(t, h, i) = VhtProbe(t, h, j)
  PROVE  i = j
<1> DEFINE c == t.cap
           o == h.offset
           k == h.iterate
<1>1. c \in Nat \ {0} /\ o \in Nat /\ k \in Nat /\ k % 2 = 1 /\ VhtSpreads(c)
  BY DEF VhtCapacity, VhtOdd
<1>2. (o + i * k) % c = (o + j * k) % c
  BY DEF VhtProbe
<1> HIDE DEF c, o, k
<1>3. i * k \in Nat /\ j * k \in Nat
  BY <1>1
<1>4. o + i * k \in Nat /\ o + j * k \in Nat
  BY <1>1, <1>3
<1>5. PICK m \in Int : o + i * k = (o + j * k) + m * c
  <2> DEFINE x == o + i * k
             y == o + j * k
  <2>1. x \in Nat /\ y \in Nat /\ x % c = y % c
    BY <1>2, <1>4
  <2> HIDE DEF x, y
  <2>2. \E m \in Int : x = y + m * c
    BY <1>1, <2>1, RemaindersAgree
  <2> QED BY <2>2 DEF x, y
<1>6. (i - j) * k = c * m
  <2>1. (i - j) * k = i * k - j * k /\ m * c = c * m /\ m * c \in Int
    BY <1>1
  <2> QED BY <1>1, <1>3, <1>5, <2>1
<1>7. PICK r \in Int : i - j = c * r
  <2> DEFINE d == i - j
  <2>1. d \in Int /\ k \in Int /\ k % 2 = 1 /\ VhtMultiple(d * k, c)
    BY <1>1, <1>6 DEF VhtMultiple
  <2> HIDE DEF d
  <2>2. VhtMultiple(d, c)
    BY <1>1, <2>1, Zenon DEF VhtSpreads
  <2> QED BY <2>2 DEF VhtMultiple, d
<1>8. r = 0
  <2>1. CASE r >= 1
    <3>1. c * r >= c
      BY <1>1, <2>1
    <3> QED BY <1>1, <1>7, <3>1 DEF c
  <2>2. CASE r <= -1
    <3>1. c * r <= -c
      BY <1>1, <2>2
    <3> QED BY <1>1, <1>7, <3>1 DEF c
  <2> QED BY <2>1, <2>2
<1> QED BY <1>1, <1>7, <1>8

LEMMA SlotsCount ==
  ASSUME NEW lo \in Nat, NEW c \in Nat, c # 0
  PROVE  IsFiniteSet(lo..lo + c - 1) /\ Cardinality(lo..lo + c - 1) = c
<1> DEFINE hi == lo + c - 1
<1>1. lo \in Int /\ hi \in Int /\ ~(lo > hi) /\ hi - lo + 1 = c
  OBVIOUS
<1> HIDE DEF hi
<1>2. IsFiniteSet(lo..hi) /\ Cardinality(lo..hi) = c
  BY <1>1, FS_Interval
<1> QED BY <1>2 DEF hi

(* And so it comes to every one.                                           *)
LEMMA VhtProbesReach ==
  ASSUME NEW t, VhtCapacity(t.cap), NEW h, VhtOdd(h), NEW lo \in Nat, NEW x \in 0..t.cap - 1
  PROVE  \E i \in lo..lo + t.cap - 1 : VhtProbe(t, h, i) = x
<1> DEFINE c == t.cap
           S == lo..lo + c - 1
           T == 0..c - 1
           f == [i \in S |-> VhtProbe(t, h, i)]
<1>1. c \in Nat /\ c # 0
  BY DEF VhtCapacity
<1>2. \A i \in S : VhtProbe(t, h, i) \in T
  <2> TAKE i \in S
  <2>1. i \in Nat
    BY <1>1
  <2> QED BY <2>1, VhtProbeIs
<1>3. \A i, j \in S : VhtProbe(t, h, i) = VhtProbe(t, h, j) => i = j
  <2> TAKE i, j \in S
  <2>1. i \in Nat /\ j \in Nat /\ i - j < c /\ j - i < c
    BY <1>1
  <2> QED BY <2>1, VhtProbesDiffer
<1> HIDE DEF c
<1>4. IsFiniteSet(S) /\ IsFiniteSet(T) /\ Cardinality(S) = c /\ Cardinality(T) = c
  <2>1. T = 0..0 + c - 1
    BY <1>1
  <2>2. IsFiniteSet(S) /\ Cardinality(S) = c
    BY <1>1, SlotsCount
  <2>3. IsFiniteSet(T) /\ Cardinality(T) = c
    <3> HIDE DEF T
    <3> QED BY <1>1, <2>1, SlotsCount
  <2> QED BY <2>2, <2>3
<1>5. f \in Injection(S, T)
  <2> HIDE DEF S, T
  <2>1. f \in [S -> T] /\ \A i, j \in S : f[i] = f[j] => i = j
    BY <1>2, <1>3
  <2> HIDE DEF f
  <2> QED BY <2>1 DEF Injection, IsInjective
<1>6. f \in Surjection(S, T)
  <2> HIDE DEF f, S, T
  <2> QED BY <1>4, <1>5, FS_Injection
<1>7. \A y \in T : \E i \in S : f[i] = y
  <2> HIDE DEF f, S, T
  <2> QED BY <1>6 DEF Surjection
<1>8. x \in T
  BY DEF c
<1> HIDE DEF T
<1> QED BY <1>7, <1>8 DEF c

-----------------------------------------------------------------------------
(* Vht: where a key is.                                                    *)

(* The least number of a set of them is one of the set.                    *)
LEMMA LeastOfSome ==
  ASSUME NEW S \in SUBSET Nat, S # {}
  PROVE  Min(S) \in S /\ \A x \in S : Min(S) <= x
<1> DEFINE below == {n \in Nat : \A x \in S : n <= x}
<1>1. \E m \in S : \A x \in S : m <= x
  <2> SUFFICES ASSUME \A m \in S : \E x \in S : x < m PROVE FALSE
    OBVIOUS
  <2>1. 0 \in below
    OBVIOUS
  <2>2. \A n \in below \cap Nat : n + 1 \in below
    <3> TAKE n \in below \cap Nat
    <3>1. n \notin S
      OBVIOUS
    <3>2. \A x \in S : n <= x /\ n # x
      BY <3>1
    <3> QED BY <3>2
  <2> HIDE DEF below
  <2>3. Nat \subseteq below
    BY <2>1, <2>2, SetInduction
  <2>4. PICK x \in S : TRUE
    OBVIOUS
  <2>5. x + 1 \in below
    BY <2>3, <2>4
  <2> QED BY <2>4, <2>5 DEF below
<1> QED BY <1>1 DEF Min

VhtShape(t) ==
  /\ DOMAIN t = {"slots", "len", "cap"}
  /\ VhtCapacity(t.cap)
  /\ DOMAIN t.slots \subseteq 0..t.cap - 1
  /\ \A x \in DOMAIN t.slots : t.slots[x].key \in VhtKeys
  /\ t.len = Cardinality(DOMAIN t.slots)

(* The search for a key ends at x after i steps.                           *)
VhtPath(t, key, x, i) ==
  /\ i \in VhtEnds(t, key) /\ \A j \in VhtEnds(t, key) : i <= j
  /\ VhtProbe(t, VhtHash[key], i) = x

LEMMA VhtSlotsAre ==
  ASSUME NEW t, VhtShape(t)
  PROVE  IsFiniteSet(DOMAIN t.slots) /\ t.len \in Nat
<1>1. t.cap \in Nat /\ t.cap # 0
  BY DEF VhtShape, VhtCapacity
<1>2. IsFiniteSet(0..0 + t.cap - 1)
  BY <1>1, SlotsCount
<1>3. 0..0 + t.cap - 1 = 0..t.cap - 1
  BY <1>1
<1>4. IsFiniteSet(DOMAIN t.slots)
  BY <1>2, <1>3, FS_Subset DEF VhtShape
<1> QED BY <1>4, FS_CardinalityType DEF VhtShape

LEMMA VhtEndsAre ==
  ASSUME NEW t, VhtCapacity(t.cap), NEW key
  PROVE  /\ VhtEnds(t, key) \in SUBSET Nat
         /\ \A i \in VhtEnds(t, key) : i \in 0..t.cap - 1
BY DEF VhtEnds, VhtCapacity

LEMMA VhtPathIs ==
  ASSUME NEW t, VhtCapacity(t.cap), NEW key, NEW x, NEW i, VhtPath(t, key, x, i)
  PROVE  VhtSlotOf(t, key) = x
<1> DEFINE E == VhtEnds(t, key)
<1>1. E \in SUBSET Nat /\ i \in E /\ \A j \in E : i <= j
  BY VhtEndsAre DEF VhtPath
<1>2. E # {}
  BY <1>1
<1> HIDE DEF E
<1>3. Min(E) \in E /\ \A j \in E : Min(E) <= j
  BY <1>1, <1>2, LeastOfSome
<1>4. Min(E) = i
  <2> DEFINE m == Min(E)
  <2>1. m \in Nat /\ i \in Nat /\ m <= i /\ i <= m
    BY <1>1, <1>3
  <2> HIDE DEF m
  <2>2. m = i
    BY <2>1
  <2> QED BY <2>2 DEF m
<1> QED BY <1>2, <1>4 DEF VhtSlotOf, VhtPath, E

LEMMA VhtHasPath ==
  ASSUME NEW t, VhtCapacity(t.cap), NEW key, VhtSlotOf(t, key) # -1
  PROVE  \E i : VhtPath(t, key, VhtSlotOf(t, key), i)
<1> DEFINE E == VhtEnds(t, key)
<1>1. E \in SUBSET Nat /\ E # {}
  BY VhtEndsAre DEF VhtSlotOf
<1>2. VhtSlotOf(t, key) = VhtProbe(t, VhtHash[key], Min(E))
  BY <1>1 DEF VhtSlotOf
<1> HIDE DEF E
<1>3. Min(E) \in E /\ \A j \in E : Min(E) <= j
  BY <1>1, LeastOfSome
<1>4. VhtPath(t, key, VhtSlotOf(t, key), Min(E))
  BY <1>2, <1>3 DEF VhtPath, E
<1> QED BY <1>4

(* On the way there the slots hold other keys.                             *)
LEMMA VhtPathMeans ==
  ASSUME NEW t, VhtCapacity(t.cap), NEW key \in VhtKeys, NEW x, NEW i, VhtPath(t, key, x, i)
  PROVE  /\ i \in 0..t.cap - 1 /\ x \in 0..t.cap - 1
         /\ VhtProbe(t, VhtHash[key], i) = x
         /\ x \notin DOMAIN t.slots \/ t.slots[x].key = key
         /\ \A j \in 0..i - 1 :
              LET y == VhtProbe(t, VhtHash[key], j) IN y \in DOMAIN t.slots /\ t.slots[y].key # key
<1>1. i \in VhtEnds(t, key) /\ VhtProbe(t, VhtHash[key], i) = x
  BY DEF VhtPath
<1>2. i \in 0..t.cap - 1 /\ (x \notin DOMAIN t.slots \/ t.slots[x].key = key)
  BY <1>1 DEF VhtEnds, VhtIsAt
<1>3. t.cap \in Nat
  BY DEF VhtCapacity
<1>4. x \in 0..t.cap - 1
  BY <1>1, <1>2, <1>3, VhtProbeIs, HashesAreOdd
<1>5. ASSUME NEW j \in 0..i - 1
      PROVE  LET y == VhtProbe(t, VhtHash[key], j) IN y \in DOMAIN t.slots /\ t.slots[y].key # key
  <2>1. j \in 0..t.cap - 1 /\ ~(i <= j)
    BY <1>2, <1>3
  <2>2. j \notin VhtEnds(t, key)
    BY <2>1 DEF VhtPath
  <2> QED BY <2>1, <2>2 DEF VhtEnds, VhtIsAt
<1> QED BY <1>1, <1>2, <1>4, <1>5

(* Where that is so in another table of the same size, the key is at the   *)
(* same slot there.                                                        *)
LEMMA VhtPathKeeps ==
  ASSUME NEW t, VhtCapacity(t.cap), NEW key \in VhtKeys, NEW x, NEW i, VhtPath(t, key, x, i),
         NEW u, u.cap = t.cap, x \notin DOMAIN u.slots \/ u.slots[x].key = key,
         \A j \in 0..i - 1 :
           LET y == VhtProbe(t, VhtHash[key], j) IN y \in DOMAIN u.slots /\ u.slots[y].key # key
  PROVE  VhtSlotOf(u, key) = x
<1>1. /\ i \in 0..t.cap - 1
      /\ VhtProbe(t, VhtHash[key], i) = x
  BY VhtPathMeans
<1>2. \A j : VhtProbe(u, VhtHash[key], j) = VhtProbe(t, VhtHash[key], j)
  BY DEF VhtProbe
<1>3. i \in VhtEnds(u, key)
  BY <1>1, <1>2 DEF VhtEnds, VhtIsAt
<1>4. ASSUME NEW j \in VhtEnds(u, key)
      PROVE  i <= j
  <2>1. j \in 0..u.cap - 1
    BY DEF VhtEnds
  <2>2. j \notin 0..i - 1
    BY <1>2, <2>1 DEF VhtEnds, VhtIsAt
  <2> QED BY <1>1, <2>1, <2>2 DEF VhtCapacity
<1>5. VhtPath(u, key, x, i)
  BY <1>1, <1>2, <1>3, <1>4 DEF VhtPath
<1> QED BY <1>5, VhtPathIs

(* A table that is not full has a place for every key.                     *)
LEMMA VhtHasRoom ==
  ASSUME NEW t, VhtShape(t), t.len < t.cap, NEW key \in VhtKeys
  PROVE  VhtSlotOf(t, key) # -1
<1> USE DEF VhtShape
<1>1. t.cap \in Nat /\ t.cap # 0 /\ VhtCapacity(t.cap)
  BY DEF VhtCapacity
<1>2. VhtOdd(VhtHash[key])
  BY HashesAreOdd
<1>3. VhtEnds(t, key) # {}
  <2> SUFFICES ASSUME VhtEnds(t, key) = {} PROVE FALSE
    OBVIOUS
  <2>1. ASSUME NEW x \in 0..t.cap - 1
        PROVE  x \in DOMAIN t.slots
    <3>1. PICK i \in 0..0 + t.cap - 1 : VhtProbe(t, VhtHash[key], i) = x
      BY <1>1, <1>2, VhtProbesReach
    <3>2. i \in 0..t.cap - 1 /\ i \notin VhtEnds(t, key)
      BY <1>1, <3>1
    <3> QED BY <3>1, <3>2 DEF VhtEnds
  <2>2. DOMAIN t.slots = 0..0 + t.cap - 1
    <3>1. DOMAIN t.slots = 0..t.cap - 1
      BY <2>1
    <3>2. 0..t.cap - 1 = 0..0 + t.cap - 1
      BY <1>1
    <3> QED BY <3>1, <3>2, Zenon
  <2>3. Cardinality(DOMAIN t.slots) = t.cap
    BY <1>1, <2>2, SlotsCount
  <2> QED BY <1>1, <2>3
<1>4. PICK i : i \in VhtEnds(t, key) /\ VhtSlotOf(t, key) = VhtProbe(t, VhtHash[key], i)
  BY <1>1, <1>3, VhtEndsAre, LeastOfSome DEF VhtSlotOf
<1>5. i \in Nat
  BY <1>1, <1>4, VhtEndsAre
<1>6. VhtProbe(t, VhtHash[key], i) \in 0..t.cap - 1
  BY <1>1, <1>2, <1>5, VhtProbeIs
<1> QED BY <1>1, <1>4, <1>6

(* What a key set at the slot its search came to leaves of the others.     *)
LEMMA VhtPutShape ==
  ASSUME NEW t, VhtShape(t), NEW key \in VhtKeys, NEW val, VhtSlotOf(t, key) # -1
  PROVE  LET s == VhtSlotOf(t, key)
             u == VhtPut(t, s, key, val)
         IN /\ VhtShape(u) /\ u.cap = t.cap /\ u.len \in {t.len, t.len + 1}
            /\ u.slots = VhtWith(t.slots, s, [key |-> key, val |-> val])
            /\ DOMAIN u.slots = {s} \cup DOMAIN t.slots
            /\ VhtSlotOf(u, key) = s
            /\ s \in DOMAIN t.slots => t.slots[s].key = key
<1> DEFINE s == VhtSlotOf(t, key)
           e == [key |-> key, val |-> val]
           u == VhtPut(t, s, key, val)
<1>1. PICK i : VhtPath(t, key, s, i)
  BY VhtHasPath DEF VhtShape
<1>2. /\ i \in 0..t.cap - 1 /\ s \in 0..t.cap - 1
      /\ s \notin DOMAIN t.slots \/ t.slots[s].key = key
      /\ \A j \in 0..i - 1 :
           LET y == VhtProbe(t, VhtHash[key], j) IN y \in DOMAIN t.slots /\ t.slots[y].key # key
  BY <1>1, VhtPathMeans DEF VhtShape
<1> HIDE DEF s
<1>3. /\ DOMAIN u = {"slots", "len", "cap"} /\ u.cap = t.cap
      /\ u.slots = VhtWith(t.slots, s, e)
      /\ u.len = IF VhtIsAt(t, s, key) THEN t.len ELSE t.len + 1
  BY DEF VhtPut, VhtShape
<1> HIDE DEF u
<1>4. DOMAIN u.slots = {s} \cup DOMAIN t.slots /\ u.slots[s].key = key
  BY <1>3 DEF VhtWith
<1>5. \A x \in DOMAIN t.slots : x # s => u.slots[x] = t.slots[x]
  BY <1>3 DEF VhtWith
<1>6. \A x \in DOMAIN u.slots : u.slots[x].key \in VhtKeys
  BY <1>4, <1>5 DEF VhtShape
<1>7. u.len \in {t.len, t.len + 1} /\ u.len = Cardinality(DOMAIN u.slots)
  <2>1. IsFiniteSet(DOMAIN t.slots) /\ t.len = Cardinality(DOMAIN t.slots)
    BY VhtSlotsAre DEF VhtShape
  <2>2. Cardinality(DOMAIN t.slots \cup {s}) =
          IF s \in DOMAIN t.slots THEN Cardinality(DOMAIN t.slots) ELSE Cardinality(DOMAIN t.slots) + 1
    BY <2>1, FS_AddElement
  <2>3. DOMAIN u.slots = DOMAIN t.slots \cup {s}
    BY <1>4
  <2>4. VhtIsAt(t, s, key) <=> s \in DOMAIN t.slots
    BY <1>2 DEF VhtIsAt
  <2> QED BY <1>3, <2>1, <2>2, <2>3, <2>4
<1>8. VhtShape(u)
  BY <1>2, <1>3, <1>4, <1>6, <1>7 DEF VhtShape
<1>9. VhtSlotOf(u, key) = s
  <2>1. ASSUME NEW j \in 0..i - 1
        PROVE  LET y == VhtProbe(t, VhtHash[key], j) IN y \in DOMAIN u.slots /\ u.slots[y].key # key
    <3> DEFINE y == VhtProbe(t, VhtHash[key], j)
    <3>1. y \in DOMAIN t.slots /\ t.slots[y].key # key
      BY <1>2
    <3> HIDE DEF y
    <3>2. y # s
      BY <1>2, <3>1
    <3>3. y \in DOMAIN u.slots /\ u.slots[y].key # key
      BY <1>4, <1>5, <3>1, <3>2
    <3> QED BY <3>3 DEF y
  <2> QED BY <1>1, <1>3, <1>4, <2>1, VhtPathKeeps DEF VhtShape
<1> QED BY <1>2, <1>3, <1>4, <1>7, <1>8, <1>9 DEF u, s

LEMMA VhtPutOthers ==
  ASSUME NEW t, VhtShape(t), NEW key \in VhtKeys, NEW val, VhtSlotOf(t, key) # -1,
         NEW x \in DOMAIN t.slots, x # VhtSlotOf(t, key), VhtSlotOf(t, t.slots[x].key) = x
  PROVE  LET u == VhtPut(t, VhtSlotOf(t, key), key, val)
         IN u.slots[x] = t.slots[x] /\ VhtSlotOf(u, t.slots[x].key) = x
<1> DEFINE s == VhtSlotOf(t, key)
           u == VhtPut(t, s, key, val)
           other == t.slots[x].key
<1>1. u.cap = t.cap /\ DOMAIN u.slots = {s} \cup DOMAIN t.slots
      /\ u.slots = VhtWith(t.slots, s, [key |-> key, val |-> val])
  BY VhtPutShape
<1>2. other \in VhtKeys /\ VhtCapacity(t.cap) /\ x # -1 /\ other # key
  BY DEF VhtShape
<1>3. PICK i : VhtPath(t, other, x, i)
  <2>1. VhtSlotOf(t, other) # -1 /\ VhtSlotOf(t, other) = x
    BY <1>2
  <2> QED BY <1>2, <2>1, VhtHasPath
<1> HIDE DEF s, u, other
<1>4. \A j \in 0..i - 1 :
        LET y == VhtProbe(t, VhtHash[other], j) IN y \in DOMAIN t.slots /\ t.slots[y].key # other
  BY <1>2, <1>3, VhtPathMeans
<1>5. u.slots[s].key = key /\ \A y \in DOMAIN t.slots : y # s => u.slots[y] = t.slots[y]
  BY <1>1 DEF VhtWith
<1>6. x # s
  BY DEF s
<1>7. x \in DOMAIN u.slots /\ u.slots[x] = t.slots[x] /\ u.slots[x].key = other
  BY <1>1, <1>5, <1>6 DEF other
<1>8. ASSUME NEW j \in 0..i - 1
      PROVE  LET y == VhtProbe(t, VhtHash[other], j) IN y \in DOMAIN u.slots /\ u.slots[y].key # other
  <2> DEFINE y == VhtProbe(t, VhtHash[other], j)
  <2>1. y \in DOMAIN t.slots /\ t.slots[y].key # other
    BY <1>4
  <2> HIDE DEF y
  <2>2. y \in DOMAIN u.slots /\ u.slots[y].key # other
    BY <1>1, <1>2, <1>5, <2>1
  <2> QED BY <2>2 DEF y
<1>9. VhtSlotOf(u, other) = x
  BY <1>1, <1>2, <1>3, <1>7, <1>8, VhtPathKeeps
<1> QED BY <1>7, <1>9 DEF u, s, other

(* The table holds a map: each entry is where the search for its key ends. *)
VhtAsMap(t, map) ==
  /\ \A x \in DOMAIN t.slots :
       /\ VhtSlotOf(t, t.slots[x].key) = x
       /\ t.slots[x].key \in DOMAIN map
       /\ t.slots[x].val = map[t.slots[x].key]
  /\ \A key \in DOMAIN map : \E x \in DOMAIN t.slots : t.slots[x].key = key

LEMMA VhtGets ==
  ASSUME NEW t, NEW map, VhtAsMap(t, map), NEW key
  PROVE  vht_get_direct(t, key) = IF key \in DOMAIN map THEN {map[key]} ELSE {}
<1>1. CASE key \in DOMAIN map
  <2>1. PICK x \in DOMAIN t.slots : t.slots[x].key = key
    BY <1>1 DEF VhtAsMap
  <2>2. VhtSlotOf(t, key) = x /\ t.slots[x].val = map[key]
    BY <2>1 DEF VhtAsMap
  <2>3. VhtIsAt(t, x, key)
    BY <2>1 DEF VhtIsAt
  <2> QED BY <1>1, <2>2, <2>3 DEF vht_get_direct
<1>2. CASE key \notin DOMAIN map
  <2>1. ~VhtIsAt(t, VhtSlotOf(t, key), key)
    BY <1>2 DEF VhtAsMap, VhtIsAt
  <2> QED BY <1>2, <2>1 DEF vht_get_direct
<1> QED BY <1>1, <1>2

LEMMA VhtPutAsMap ==
  ASSUME NEW t, VhtShape(t), NEW map, VhtAsMap(t, map),
         NEW key \in VhtKeys, NEW val, VhtSlotOf(t, key) # -1
  PROVE  LET u == VhtPut(t, VhtSlotOf(t, key), key, val)
         IN /\ VhtAsMap(u, VhtWith(map, key, val))
            /\ \A k \in DOMAIN map : VhtSlotOf(u, k) = VhtSlotOf(t, k)
<1> DEFINE s == VhtSlotOf(t, key)
           u == VhtPut(t, s, key, val)
           with == VhtWith(map, key, val)
<1>1. /\ DOMAIN u.slots = {s} \cup DOMAIN t.slots /\ VhtSlotOf(u, key) = s
      /\ u.slots = VhtWith(t.slots, s, [key |-> key, val |-> val])
      /\ s \in DOMAIN t.slots => t.slots[s].key = key
  BY VhtPutShape
<1>2. ASSUME NEW x \in DOMAIN t.slots, x # s
      PROVE  /\ u.slots[x] = t.slots[x] /\ VhtSlotOf(u, t.slots[x].key) = x
             /\ t.slots[x].key # key /\ t.slots[x].key \in DOMAIN map
             /\ t.slots[x].val = map[t.slots[x].key]
             /\ VhtSlotOf(t, t.slots[x].key) = x
  <2>1. VhtSlotOf(t, t.slots[x].key) = x
    BY DEF VhtAsMap
  <2>2. u.slots[x] = t.slots[x] /\ VhtSlotOf(u, t.slots[x].key) = x
    BY <1>2, <2>1, VhtPutOthers
  <2> QED BY <1>2, <2>1, <2>2 DEF VhtAsMap
<1> HIDE DEF s, u
<1>3. u.slots[s].key = key /\ u.slots[s].val = val /\ s \in DOMAIN u.slots
  BY <1>1 DEF VhtWith
<1>4. /\ DOMAIN with = {key} \cup DOMAIN map /\ with[key] = val
      /\ \A k \in DOMAIN map : k # key => with[k] = map[k]
  BY DEF VhtWith
<1> HIDE DEF with
<1>5. ASSUME NEW x \in DOMAIN u.slots
      PROVE  /\ VhtSlotOf(u, u.slots[x].key) = x
             /\ u.slots[x].key \in DOMAIN with
             /\ u.slots[x].val = with[u.slots[x].key]
  <2>1. CASE x = s BY <1>1, <1>3, <1>4, <2>1
  <2>2. CASE x # s
    <3>1. x \in DOMAIN t.slots
      BY <1>1, <2>2
    <3> QED BY <1>2, <1>4, <2>2, <3>1
  <2> QED BY <2>1, <2>2
<1>6. ASSUME NEW k \in DOMAIN map, k # key
      PROVE  \E x \in DOMAIN t.slots : x # s /\ t.slots[x].key = k
  <2>1. PICK x \in DOMAIN t.slots : t.slots[x].key = k
    BY DEF VhtAsMap
  <2> QED BY <1>1, <1>6, <2>1
<1>7. ASSUME NEW k \in DOMAIN with
      PROVE  \E x \in DOMAIN u.slots : u.slots[x].key = k
  <2>1. CASE k = key BY <1>3, <2>1
  <2>2. CASE k # key
    <3>1. PICK x \in DOMAIN t.slots : x # s /\ t.slots[x].key = k
      BY <1>4, <1>6, <2>2
    <3> QED BY <1>1, <1>2, <3>1
  <2> QED BY <2>1, <2>2
<1>8. ASSUME NEW k \in DOMAIN map
      PROVE  VhtSlotOf(u, k) = VhtSlotOf(t, k)
  <2>1. CASE k = key BY <1>1, <2>1 DEF s
  <2>2. CASE k # key
    <3>1. PICK x \in DOMAIN t.slots : x # s /\ t.slots[x].key = k
      BY <1>6, <2>2
    <3> QED BY <1>2, <3>1
  <2> QED BY <2>1, <2>2
<1>9. VhtAsMap(u, with)
  BY <1>5, <1>7 DEF VhtAsMap
<1> QED BY <1>8, <1>9 DEF u, s, with

-----------------------------------------------------------------------------
(* Vht: growth.                                                            *)

LEMMA VhtDoubleRun ==
  ASSUME NEW t, t.cap \in Nat
  PROVE  \E run : /\ run[0] = vht_init(4 * t.cap)
                  /\ \A i \in 1..t.cap : run[i] = VhtCarry(run[i - 1], t, VhtProbe(t, VhtSalt, i))
                  /\ vht_double(t) = run[t.cap]
<1> DEFINE num == t.cap
           new == vht_init(4 * t.cap)
           step(into, i) == VhtCarry(into, t, VhtProbe(t, VhtSalt, i))
           S == {n \in Nat : \E r : r = [i \in 0..n |-> IF i = 0 THEN new ELSE step(r[i - 1], i)]}
           run == CHOOSE r : r = [i \in 0..num |-> IF i = 0 THEN new ELSE step(r[i - 1], i)]
<1>1. vht_double(t) = run[num]
  BY DEF vht_double
<1> HIDE DEF new, step
<1>2. 0 \in S
  <2> DEFINE r == [i \in 0..0 |-> new]
  <2>1. r = [i \in 0..0 |-> IF i = 0 THEN new ELSE step(r[i - 1], i)]
    OBVIOUS
  <2> QED BY <2>1
<1>3. ASSUME NEW n \in S \cap Nat PROVE n + 1 \in S
  <2>1. PICK r : r = [i \in 0..n |-> IF i = 0 THEN new ELSE step(r[i - 1], i)]
    OBVIOUS
  <2> DEFINE u == [i \in 0..n + 1 |-> IF i = n + 1 THEN step(r[n], i) ELSE r[i]]
  <2>2. ASSUME NEW i \in 0..n + 1
        PROVE  u[i] = IF i = 0 THEN new ELSE step(u[i - 1], i)
    <3>1. CASE i = n + 1
      BY <3>1
    <3>2. CASE i # n + 1
      <4>1. i \in 0..n /\ u[i] = r[i]
        BY <3>2
      <4>2. i # 0 => i - 1 \in 0..n /\ u[i - 1] = r[i - 1]
        BY <3>2
      <4>3. r[i] = IF i = 0 THEN new ELSE step(r[i - 1], i)
        BY <2>1, <4>1
      <4> QED BY <4>1, <4>2, <4>3
    <3> QED BY <3>1, <3>2
  <2>3. u = [i \in 0..n + 1 |-> u[i]]
    OBVIOUS
  <2> HIDE DEF u
  <2>4. u = [i \in 0..n + 1 |-> IF i = 0 THEN new ELSE step(u[i - 1], i)]
    BY <2>2, <2>3
  <2> QED BY <2>4
<1>4. run = [i \in 0..num |-> IF i = 0 THEN new ELSE step(run[i - 1], i)]
  <2>1. num \in S
    <3> HIDE DEF S
    <3> QED BY <1>2, <1>3, SetInduction
  <2> QED BY <2>1
<1> HIDE DEF run
<1>5. run[0] = new /\ \A i \in 1..num : run[i] = step(run[i - 1], i)
  BY <1>4
<1> QED BY <1>1, <1>5 DEF new, step

(* The first i slots of the walk through t are carried into u.             *)
VhtSame(u, x, t, y) ==
  u.slots[x].key = t.slots[y].key /\ u.slots[x].val = t.slots[y].val
VhtCarried(u, t, i) ==
  /\ VhtShape(u) /\ u.cap = 4 * t.cap /\ u.len <= i
  /\ \A x \in DOMAIN u.slots :
       /\ VhtSlotOf(u, u.slots[x].key) = x
       /\ \E y \in DOMAIN t.slots : VhtSame(u, x, t, y)
  /\ \A j \in 1..i : VhtProbe(t, VhtSalt, j) \in DOMAIN t.slots =>
       \E x \in DOMAIN u.slots : u.slots[x].key = t.slots[VhtProbe(t, VhtSalt, j)].key

LEMMA VhtFourfold ==
  ASSUME NEW c, VhtCapacity(c)
  PROVE  VhtCapacity(4 * c)
<1>1. c \in Nat /\ 2 * c \in Nat /\ 4 * c = 2 * (2 * c) /\ 4 * c \in Nat /\ 4 * c # 0
  BY DEF VhtCapacity
<1>2. VhtSpreads(2 * c)
  BY <1>1, TwiceSpreads DEF VhtCapacity
<1>3. VhtSpreads(2 * (2 * c))
  BY <1>1, <1>2, TwiceSpreads
<1> QED BY <1>1, <1>3 DEF VhtCapacity

LEMMA VhtInitShape ==
  ASSUME NEW c, VhtCapacity(c)
  PROVE  /\ VhtShape(vht_init(c)) /\ vht_init(c).cap = c /\ vht_init(c).len = 0
         /\ DOMAIN vht_init(c).slots = {}
BY FS_EmptySet DEF VhtShape, vht_init, VhtEmpty

LEMMA VhtCarryKeeps ==
  ASSUME NEW t, VhtShape(t), NEW i \in Nat, i < t.cap, NEW into, VhtCarried(into, t, i)
  PROVE  VhtCarried(VhtCarry(into, t, VhtProbe(t, VhtSalt, i + 1)), t, i + 1)
<1> DEFINE slot == VhtProbe(t, VhtSalt, i + 1)
           key == t.slots[slot].key
           val == t.slots[slot].val
           s == VhtSlotOf(into, key)
           u == VhtPut(into, s, key, val)
<1>1. /\ VhtShape(into) /\ into.cap = 4 * t.cap /\ into.len <= i
      /\ t.cap \in Nat /\ into.len \in Nat
  BY VhtSlotsAre DEF VhtCarried, VhtShape, VhtCapacity
<1>2. \A j \in 1..i + 1 : j \in 1..i \/ j = i + 1
  OBVIOUS
<1>3. CASE slot \notin DOMAIN t.slots
  <2>1. VhtCarry(into, t, slot) = into
    BY <1>3 DEF VhtCarry
  <2>2. into.len <= i + 1
    BY <1>1
  <2> HIDE DEF slot, key, val, s, u
  <2>3. VhtCarried(into, t, i + 1)
    BY <1>2, <1>3, <2>2 DEF VhtCarried, slot
  <2> QED BY <2>1, <2>3 DEF slot
<1>4. CASE slot \in DOMAIN t.slots
  <2>1. VhtCarry(into, t, slot) = u
    BY <1>4 DEF VhtCarry
  <2>2. key \in VhtKeys
    BY <1>4 DEF VhtShape
  <2>3. into.len < into.cap
    BY <1>1
  <2> HIDE DEF slot, key, val, s, u
  <2>4. s # -1
    BY <1>1, <2>2, <2>3, VhtHasRoom DEF s
  <2>5. /\ VhtShape(u) /\ u.cap = into.cap /\ u.len \in {into.len, into.len + 1}
        /\ u.slots = VhtWith(into.slots, s, [key |-> key, val |-> val])
        /\ DOMAIN u.slots = {s} \cup DOMAIN into.slots
        /\ VhtSlotOf(u, key) = s
        /\ s \in DOMAIN into.slots => into.slots[s].key = key
    BY <1>1, <2>2, <2>4, VhtPutShape DEF s, u
  <2>6. u.slots[s].key = key /\ u.slots[s].val = val
    BY <2>5 DEF VhtWith
  <2>7. ASSUME NEW x \in DOMAIN into.slots, x # s
        PROVE  u.slots[x] = into.slots[x] /\ VhtSlotOf(u, into.slots[x].key) = x
    <3>1. VhtSlotOf(into, into.slots[x].key) = x
      BY DEF VhtCarried
    <3> QED BY <1>1, <2>2, <2>4, <2>7, <3>1, VhtPutOthers DEF s, u
  <2>8. ASSUME NEW x \in DOMAIN u.slots
        PROVE  /\ VhtSlotOf(u, u.slots[x].key) = x
               /\ \E y \in DOMAIN t.slots : VhtSame(u, x, t, y)
    <3>1. CASE x = s
      <4>1. VhtSame(u, x, t, slot)
        BY <2>6, <3>1 DEF VhtSame, key, val
      <4> QED BY <1>4, <2>5, <2>6, <3>1, <4>1
    <3>2. CASE x # s
      <4>1. x \in DOMAIN into.slots
        BY <2>5, <3>2
      <4>2. u.slots[x] = into.slots[x] /\ VhtSlotOf(u, into.slots[x].key) = x
        BY <2>7, <3>2, <4>1
      <4>3. PICK y \in DOMAIN t.slots : VhtSame(into, x, t, y)
        BY <4>1 DEF VhtCarried
      <4>4. VhtSame(u, x, t, y)
        BY <4>2, <4>3 DEF VhtSame
      <4> QED BY <4>2, <4>4
    <3> QED BY <3>1, <3>2
  <2>9. ASSUME NEW x \in DOMAIN into.slots
        PROVE  x \in DOMAIN u.slots /\ u.slots[x].key = into.slots[x].key
    <3>1. CASE x = s BY <2>5, <2>6, <3>1
    <3>2. CASE x # s BY <2>5, <2>7, <3>2
    <3> QED BY <3>1, <3>2
  <2>10. ASSUME NEW j \in 1..i + 1, VhtProbe(t, VhtSalt, j) \in DOMAIN t.slots
         PROVE  \E x \in DOMAIN u.slots : u.slots[x].key = t.slots[VhtProbe(t, VhtSalt, j)].key
    <3>1. CASE j = i + 1
      BY <2>5, <2>6, <3>1 DEF slot, key
    <3>2. CASE j \in 1..i
      <4>1. PICK x \in DOMAIN into.slots : into.slots[x].key = t.slots[VhtProbe(t, VhtSalt, j)].key
        BY <2>10, <3>2 DEF VhtCarried
      <4> QED BY <2>9, <4>1
    <3> QED BY <1>2, <3>1, <3>2
  <2>11. u.len <= i + 1
    BY <1>1, <2>5
  <2>12. VhtCarried(u, t, i + 1)
    BY <1>1, <2>5, <2>8, <2>10, <2>11 DEF VhtCarried
  <2> QED BY <2>1, <2>12 DEF slot
<1> QED BY <1>3, <1>4

(* Every entry is carried once.                                            *)
LEMMA VhtDoubles ==
  ASSUME NEW t, VhtShape(t)
  PROVE  VhtCarried(vht_double(t), t, t.cap)
<1>1. t.cap \in Nat /\ t.cap # 0 /\ VhtCapacity(t.cap)
  BY DEF VhtShape, VhtCapacity
<1>2. PICK run : /\ run[0] = vht_init(4 * t.cap)
                 /\ \A i \in 1..t.cap : run[i] = VhtCarry(run[i - 1], t, VhtProbe(t, VhtSalt, i))
                 /\ vht_double(t) = run[t.cap]
  BY <1>1, VhtDoubleRun
<1> DEFINE S == {i \in Nat : i <= t.cap => VhtCarried(run[i], t, i)}
<1>3. 0 \in S
  <2> DEFINE c == 4 * t.cap
  <2>1. VhtCapacity(c)
    BY <1>1, VhtFourfold
  <2> HIDE DEF c
  <2>2. /\ VhtShape(vht_init(c)) /\ vht_init(c).cap = c /\ vht_init(c).len = 0
        /\ DOMAIN vht_init(c).slots = {}
    BY <2>1, VhtInitShape
  <2>3. VhtCarried(vht_init(c), t, 0)
    BY <2>2 DEF VhtCarried, c
  <2> QED BY <1>2, <2>3 DEF c
<1>4. ASSUME NEW i \in S \cap Nat PROVE i + 1 \in S
  <2> SUFFICES ASSUME i + 1 <= t.cap PROVE VhtCarried(run[i + 1], t, i + 1)
    OBVIOUS
  <2>1. i + 1 \in 1..t.cap /\ (i + 1) - 1 = i /\ i < t.cap /\ i <= t.cap
    BY <1>1
  <2>2. VhtCarried(run[i], t, i)
    BY <2>1
  <2>3. run[i + 1] = VhtCarry(run[i], t, VhtProbe(t, VhtSalt, i + 1))
    BY <1>2, <2>1
  <2> QED BY <2>1, <2>2, <2>3, VhtCarryKeeps
<1>5. t.cap \in S
  <2> HIDE DEF S
  <2> QED BY <1>1, <1>3, <1>4, SetInduction
<1> QED BY <1>1, <1>2, <1>5

(* The table is four times as large, and holds no more entries.            *)
LEMMA VhtDoubleShape ==
  ASSUME NEW t, VhtShape(t)
  PROVE  /\ VhtShape(vht_double(t)) /\ vht_double(t).cap = 4 * t.cap
         /\ vht_double(t).len <= t.len
<1> DEFINE u == vht_double(t)
<1>1. VhtCarried(u, t, t.cap)
  BY VhtDoubles
<1> HIDE DEF u
<1> DEFINE X == DOMAIN u.slots
           Y == DOMAIN t.slots
           from == [x \in X |-> CHOOSE y \in Y : VhtSame(u, x, t, y)]
<1>2. \A x \in X : from[x] \in Y /\ VhtSame(u, x, t, from[x])
  BY <1>1 DEF VhtCarried
<1>3. \A x \in X : VhtSlotOf(u, u.slots[x].key) = x
  BY <1>1 DEF VhtCarried
<1>4. from = [x \in X |-> from[x]]
  OBVIOUS
<1> HIDE DEF from
<1>5. \A x, z \in X : from[x] = from[z] => x = z
  BY <1>2, <1>3 DEF VhtSame
<1>6. from \in Injection(X, Y)
  <2> HIDE DEF X, Y
  <2>1. from \in [X -> Y]
    BY <1>2, <1>4
  <2> QED BY <1>5, <2>1 DEF Injection, IsInjective
<1>7. VhtShape(u) /\ IsFiniteSet(X) /\ IsFiniteSet(Y) /\ u.len = Cardinality(X) /\ t.len = Cardinality(Y)
  BY <1>1, VhtSlotsAre DEF VhtCarried, VhtShape
<1>8. Cardinality(X) <= Cardinality(Y)
  <2> HIDE DEF X, Y
  <2> QED BY <1>6, <1>7, FS_Injection
<1> QED BY <1>1, <1>7, <1>8 DEF VhtCarried, u

LEMMA VhtDoubleAsMap ==
  ASSUME NEW t, VhtShape(t), NEW map, VhtAsMap(t, map)
  PROVE  VhtAsMap(vht_double(t), map)
<1> DEFINE u == vht_double(t)
<1>1. VhtCarried(u, t, t.cap)
  BY VhtDoubles
<1>2. t.cap \in Nat /\ t.cap # 0 /\ VhtCapacity(t.cap)
  BY DEF VhtShape, VhtCapacity
<1> HIDE DEF u
<1>3. ASSUME NEW x \in DOMAIN u.slots
      PROVE  /\ VhtSlotOf(u, u.slots[x].key) = x
             /\ u.slots[x].key \in DOMAIN map
             /\ u.slots[x].val = map[u.slots[x].key]
  <2>1. PICK y \in DOMAIN t.slots : VhtSame(u, x, t, y)
    BY <1>1 DEF VhtCarried
  <2>2. VhtSlotOf(u, u.slots[x].key) = x
    BY <1>1 DEF VhtCarried
  <2> QED BY <2>1, <2>2 DEF VhtSame, VhtAsMap
<1>4. ASSUME NEW key \in DOMAIN map
      PROVE  \E x \in DOMAIN u.slots : u.slots[x].key = key
  <2>1. PICK y \in DOMAIN t.slots : t.slots[y].key = key
    BY DEF VhtAsMap
  <2>2. y \in 0..t.cap - 1
    BY DEF VhtShape
  <2>3. PICK j \in 1..1 + t.cap - 1 : VhtProbe(t, VhtSalt, j) = y
    BY <1>2, <2>2, VhtProbesReach, HashesAreOdd
  <2>4. j \in 1..t.cap
    BY <1>2, <2>3
  <2> QED BY <1>1, <2>1, <2>3, <2>4 DEF VhtCarried
<1>5. VhtAsMap(u, map)
  BY <1>3, <1>4 DEF VhtAsMap
<1> QED BY <1>5 DEF u

-----------------------------------------------------------------------------
(* Vht: deletion.                                                          *)

VhtWithout(t, slot) ==
  [t EXCEPT !.slots = Restrict(@, DOMAIN @ \ {slot}), !.len = @ - 1]

LEMMA VhtWithoutIs ==
  ASSUME NEW t, VhtShape(t), NEW slot \in DOMAIN t.slots
  PROVE  LET u == VhtWithout(t, slot)
         IN /\ VhtShape(u) /\ u.cap = t.cap /\ u.len = t.len - 1
            /\ DOMAIN u.slots = DOMAIN t.slots \ {slot}
            /\ \A x \in DOMAIN t.slots \ {slot} : u.slots[x] = t.slots[x]
<1> DEFINE u == VhtWithout(t, slot)
<1>1. /\ DOMAIN u = {"slots", "len", "cap"} /\ u.cap = t.cap /\ u.len = t.len - 1
      /\ u.slots = Restrict(t.slots, DOMAIN t.slots \ {slot})
  BY DEF VhtWithout, VhtShape
<1> HIDE DEF u
<1>2. /\ DOMAIN u.slots = DOMAIN t.slots \ {slot}
      /\ \A x \in DOMAIN t.slots \ {slot} : u.slots[x] = t.slots[x]
  BY <1>1 DEF Restrict
<1>3. u.len = Cardinality(DOMAIN u.slots)
  <2>1. IsFiniteSet(DOMAIN t.slots) /\ t.len = Cardinality(DOMAIN t.slots)
    BY VhtSlotsAre DEF VhtShape
  <2>2. Cardinality(DOMAIN t.slots \ {slot}) = Cardinality(DOMAIN t.slots) - 1
    BY <2>1, FS_RemoveElement
  <2> QED BY <1>1, <1>2, <2>1, <2>2
<1>4. VhtShape(u)
  BY <1>1, <1>2, <1>3 DEF VhtShape
<1> QED BY <1>1, <1>2, <1>4 DEF u

LEMMA VhtWithoutAsMap ==
  ASSUME NEW t, VhtShape(t), NEW map, VhtAsMap(t, map), NEW key \in VhtKeys,
         VhtIsAt(t, VhtSlotOf(t, key), key), ~VhtCutsOff(t, VhtSlotOf(t, key))
  PROVE  LET u == VhtWithout(t, VhtSlotOf(t, key))
         IN /\ VhtAsMap(u, Restrict(map, DOMAIN map \ {key}))
            /\ \A k \in DOMAIN map \ {key} : VhtSlotOf(u, k) = VhtSlotOf(t, k)
<1> DEFINE s == VhtSlotOf(t, key)
           u == VhtWithout(t, s)
           rest == Restrict(map, DOMAIN map \ {key})
<1>1. s \in DOMAIN t.slots /\ t.slots[s].key = key
  BY DEF VhtIsAt
<1>2. /\ u.cap = t.cap /\ DOMAIN u.slots = DOMAIN t.slots \ {s}
      /\ \A x \in DOMAIN t.slots \ {s} : u.slots[x] = t.slots[x]
  BY <1>1, VhtWithoutIs
<1>3. /\ DOMAIN rest = DOMAIN map \ {key}
      /\ \A k \in DOMAIN map \ {key} : rest[k] = map[k]
  BY DEF Restrict
<1>4. ASSUME NEW x \in DOMAIN t.slots, x # s
      PROVE  /\ VhtSlotOf(u, t.slots[x].key) = x /\ VhtSlotOf(t, t.slots[x].key) = x
             /\ t.slots[x].key \in DOMAIN map \ {key} /\ t.slots[x].val = map[t.slots[x].key]
  <2> DEFINE other == t.slots[x].key
  <2>1. /\ VhtSlotOf(t, other) = x /\ other \in DOMAIN map /\ t.slots[x].val = map[other]
        /\ other \in VhtKeys /\ x \in 0..t.cap - 1 /\ VhtCapacity(t.cap)
    BY DEF VhtAsMap, VhtShape
  <2>2. other # key
    BY <1>4, <2>1
  <2>3. PICK i : VhtPath(t, other, x, i)
    <3>1. VhtSlotOf(t, other) # -1
      BY <2>1 DEF VhtCapacity
    <3> QED BY <2>1, <3>1, VhtHasPath
  <2>4. VhtHash[t.slots[x].key] = VhtHash[other]
    OBVIOUS
  <2> HIDE DEF other
  <2>5. /\ i \in 0..t.cap - 1 /\ VhtProbe(t, VhtHash[other], i) = x
        /\ \A j \in 0..i - 1 :
             LET y == VhtProbe(t, VhtHash[other], j) IN y \in DOMAIN t.slots /\ t.slots[y].key # other
    BY <2>1, <2>3, VhtPathMeans
  <2>6. ASSUME NEW j \in 0..i - 1
        PROVE  LET y == VhtProbe(t, VhtHash[other], j) IN y \in DOMAIN u.slots /\ u.slots[y].key # other
    <3> DEFINE y == VhtProbe(t, VhtHash[other], j)
    <3>1. y \in DOMAIN t.slots /\ t.slots[y].key # other
      BY <2>5
    <3>2. j \in 0..t.cap - 1 /\ j < i
      BY <2>1, <2>5 DEF VhtCapacity
    <3>3. y # s
      BY <1>4, <2>4, <2>5, <3>2 DEF VhtCutsOff
    <3> HIDE DEF y, u, s
    <3>4. y \in DOMAIN u.slots /\ u.slots[y].key # other
      BY <1>2, <3>1, <3>3
    <3> QED BY <3>4 DEF y
  <2> HIDE DEF u, s
  <2>7. u.slots[x].key = other
    BY <1>2, <1>4 DEF other
  <2>8. VhtSlotOf(u, other) = x
    BY <1>2, <2>1, <2>3, <2>6, <2>7, VhtPathKeeps
  <2> QED BY <2>1, <2>2, <2>8 DEF other
<1> HIDE DEF s, u, rest
<1>5. ASSUME NEW k \in DOMAIN map \ {key}
      PROVE  \E x \in DOMAIN t.slots : x # s /\ t.slots[x].key = k
  <2>1. PICK x \in DOMAIN t.slots : t.slots[x].key = k
    BY DEF VhtAsMap
  <2> QED BY <1>1, <2>1
<1>6. ASSUME NEW x \in DOMAIN u.slots
      PROVE  /\ VhtSlotOf(u, u.slots[x].key) = x
             /\ u.slots[x].key \in DOMAIN rest
             /\ u.slots[x].val = rest[u.slots[x].key]
  <2>1. x \in DOMAIN t.slots /\ x # s /\ u.slots[x] = t.slots[x]
    BY <1>2
  <2> QED BY <1>3, <1>4, <2>1
<1>7. ASSUME NEW k \in DOMAIN rest
      PROVE  \E x \in DOMAIN u.slots : u.slots[x].key = k
  <2>1. PICK x \in DOMAIN t.slots : x # s /\ t.slots[x].key = k
    BY <1>3, <1>5
  <2> QED BY <1>2, <2>1
<1>8. ASSUME NEW k \in DOMAIN map \ {key}
      PROVE  VhtSlotOf(u, k) = VhtSlotOf(t, k)
  <2>1. PICK x \in DOMAIN t.slots : x # s /\ t.slots[x].key = k
    BY <1>5
  <2> QED BY <1>4, <2>1
<1>9. VhtAsMap(u, rest)
  BY <1>6, <1>7 DEF VhtAsMap
<1> QED BY <1>8, <1>9 DEF u, s, rest

(* A key that is not found is not in the map either.                       *)
LEMMA VhtNotThere ==
  ASSUME NEW t, NEW map, VhtAsMap(t, map), NEW key, ~VhtIsAt(t, VhtSlotOf(t, key), key)
  PROVE  key \notin DOMAIN map /\ VhtAsMap(t, Restrict(map, DOMAIN map \ {key}))
<1> DEFINE rest == Restrict(map, DOMAIN map \ {key})
<1>1. key \notin DOMAIN map
  <2> SUFFICES ASSUME key \in DOMAIN map PROVE FALSE
    OBVIOUS
  <2>1. PICK x \in DOMAIN t.slots : t.slots[x].key = key
    BY DEF VhtAsMap
  <2>2. VhtSlotOf(t, key) = x
    BY <2>1 DEF VhtAsMap
  <2> QED BY <2>1, <2>2 DEF VhtIsAt
<1>2. DOMAIN rest = DOMAIN map /\ \A k \in DOMAIN map : rest[k] = map[k]
  BY <1>1 DEF Restrict
<1> HIDE DEF rest
<1>3. VhtAsMap(t, rest)
  BY <1>2 DEF VhtAsMap
<1> QED BY <1>1, <1>3 DEF rest

-----------------------------------------------------------------------------
(* Vht: what the calls keep.                                               *)

VhtTable == {"slots", "len", "cap"}
VhtCursor == {"offset", "gave", "there", "grew"}

(* There is room for the next set, while there is memory to grow.          *)
VhtLoad(t) == t.cap >= 2 /\ (4 * t.cap <= VhtMaxCap => (t.len - 1) * 4 < t.cap)

(* What an iteration that is not disturbed gave so far.                    *)
VhtGave(t, map, iterator) ==
  /\ iterator.there \subseteq DOMAIN map
  /\ \A key \in iterator.there : VhtSlotOf(t, key) < iterator.offset => key \in iterator.gave

VhtInv ==
  /\ vht = NULL => vht_map = VhtEmpty /\ vht_iterator = NULL
  /\ vht # NULL => /\ VhtShape(vht) /\ VhtLoad(vht)
                   /\ ~vht_cut => VhtAsMap(vht, vht_map)
  /\ vht_iterator # NULL =>
       /\ DOMAIN vht_iterator = VhtCursor /\ vht_iterator.offset \in Nat
       /\ ~vht_cut /\ ~vht_iterator.grew => VhtGave(vht, vht_map, vht_iterator)

(* The table a key is put in has room while there is memory.               *)
LEMMA VhtGrown ==
  ASSUME NEW t, VhtShape(t), VhtLoad(t)
  PROVE  LET grows == VhtNeedsDouble(t) /\ 4 * t.cap <= VhtMaxCap
             u == IF grows THEN vht_double(t) ELSE t
         IN /\ VhtShape(u) /\ u.cap >= 2 /\ (4 * u.cap <= VhtMaxCap => u.len * 4 < u.cap)
            /\ grows => u.len < u.cap
            /\ \A map : VhtAsMap(t, map) => VhtAsMap(u, map)
<1> DEFINE d == vht_double(t)
           grows == VhtNeedsDouble(t) /\ 4 * t.cap <= VhtMaxCap
<1>1. VhtShape(d) /\ d.cap = 4 * t.cap /\ d.len <= t.len
  BY VhtDoubleShape
<1>2. \A map : VhtAsMap(t, map) => VhtAsMap(d, map)
  BY VhtDoubleAsMap
<1>3. t.cap \in Nat /\ t.len \in Nat /\ d.cap \in Nat /\ d.len \in Nat /\ VhtMaxCap \in Nat
  BY <1>1, VhtSlotsAre, VhtAssumption DEF VhtShape, VhtCapacity
<1> HIDE DEF d
<1>4. CASE grows
  <2>1. (t.len - 1) * 4 < t.cap /\ t.cap >= 2
    BY <1>4 DEF VhtLoad
  <2>2. d.len < t.cap /\ d.cap >= 2 /\ d.len < d.cap /\ d.len * 4 < d.cap
    BY <1>1, <1>3, <2>1
  <2> QED BY <1>1, <1>2, <1>4, <2>2 DEF d
<1>5. CASE ~grows
  <2>1. t.cap >= 2 /\ (4 * t.cap <= VhtMaxCap => t.len * 4 < t.cap)
    BY <1>3, <1>5 DEF VhtLoad, VhtNeedsDouble
  <2> QED BY <1>5, <2>1
<1> QED BY <1>4, <1>5

LEMMA VhtSetKeeps ==
  ASSUME DOMAIN NULL # VhtTable, DOMAIN NULL # VhtCursor, VhtInv,
         NEW key \in VhtKeys, NEW val, VhtSet(key, val)
  PROVE  VhtInv' /\ (vht_iterator # NULL => vht_iterator' # NULL)
<1> DEFINE grows == VhtNeedsDouble(vht) /\ 4 * vht.cap <= VhtMaxCap
           t == IF grows THEN vht_double(vht) ELSE vht
           s == VhtSlotOf(t, key)
           u == VhtPut(t, s, key, val)
<1>1. /\ vht # NULL /\ vht_cut' = vht_cut
      /\ IF s = -1
         THEN vht' = t /\ UNCHANGED <<vht_map, vht_iterator>>
         ELSE /\ vht' = u
              /\ vht_map' = VhtWith(vht_map, key, val)
              /\ vht_iterator' = IF vht_iterator = NULL THEN NULL
                                 ELSE [vht_iterator EXCEPT !.grew = @ \/ grows]
  BY DEF VhtSet
<1>2. VhtShape(vht) /\ VhtLoad(vht) /\ (~vht_cut => VhtAsMap(vht, vht_map))
  BY <1>1 DEF VhtInv
<1>3. /\ VhtShape(t) /\ t.cap >= 2 /\ (4 * t.cap <= VhtMaxCap => t.len * 4 < t.cap)
      /\ grows => t.len < t.cap
      /\ \A map : VhtAsMap(vht, map) => VhtAsMap(t, map)
  BY <1>2, VhtGrown
<1>4. ~grows => t = vht
  OBVIOUS
<1> HIDE DEF t, grows
<1>5. t.cap \in Nat /\ t.len \in Nat /\ VhtMaxCap \in Nat
  BY <1>3, VhtSlotsAre, VhtAssumption DEF VhtShape, VhtCapacity
<1>6. CASE s = -1
  <2>1. ~(t.len < t.cap)
    BY <1>3, <1>6, VhtHasRoom
  <2> QED BY <1>1, <1>3, <1>4, <1>6, <2>1 DEF VhtInv
<1>7. CASE s # -1
  <2>1. VhtShape(u) /\ u.cap = t.cap /\ u.len \in {t.len, t.len + 1}
    BY <1>3, <1>7, VhtPutShape
  <2>2. ~vht_cut => /\ VhtAsMap(u, VhtWith(vht_map, key, val))
                    /\ \A k \in DOMAIN vht_map : VhtSlotOf(u, k) = VhtSlotOf(t, k)
    BY <1>2, <1>3, <1>7, VhtPutAsMap
  <2> HIDE DEF s, u
  <2>3. VhtLoad(u)
    BY <1>3, <1>5, <2>1 DEF VhtLoad
  <2>4. u # NULL
    BY <2>1 DEF VhtShape, VhtTable
  <2>5. vht' = u /\ vht_map' = VhtWith(vht_map, key, val)
    BY <1>1, <1>7
  <2>6. CASE vht_iterator = NULL
    BY <1>1, <1>7, <2>1, <2>2, <2>3, <2>4, <2>5, <2>6 DEF VhtInv
  <2>7. CASE vht_iterator # NULL
    <3> DEFINE it == vht_iterator
               next == [it EXCEPT !.grew = @ \/ grows]
    <3>1. DOMAIN it = VhtCursor /\ it.offset \in Nat
      BY <2>7 DEF VhtInv
    <3>2. /\ DOMAIN next = VhtCursor /\ next.offset = it.offset /\ next.there = it.there
          /\ next.gave = it.gave
      BY <3>1 DEF VhtCursor
    <3>3. next.grew = (it.grew \/ grows)
      BY <3>1 DEF VhtCursor
    <3>4. vht_iterator' = next
      BY <1>1, <1>7, <2>7
    <3> HIDE DEF next
    <3>5. next # NULL
      BY <3>2
    <3>6. ~vht_cut /\ ~next.grew => VhtGave(u, VhtWith(vht_map, key, val), next)
      <4> SUFFICES ASSUME ~vht_cut, ~next.grew
                   PROVE  VhtGave(u, VhtWith(vht_map, key, val), next)
        OBVIOUS
      <4>1. ~grows /\ ~it.grew /\ t = vht
        BY <1>4, <3>3
      <4>2. VhtGave(vht, vht_map, it)
        BY <2>7, <4>1 DEF VhtInv
      <4>3. DOMAIN vht_map \subseteq DOMAIN VhtWith(vht_map, key, val)
        BY DEF VhtWith
      <4> QED BY <2>2, <3>2, <4>1, <4>2, <4>3 DEF VhtGave
    <3> QED BY <1>1, <2>1, <2>2, <2>3, <2>4, <2>5, <3>1, <3>2, <3>4, <3>5, <3>6 DEF VhtInv
  <2> QED BY <2>6, <2>7
<1> QED BY <1>6, <1>7

LEMMA VhtDelKeeps ==
  ASSUME DOMAIN NULL # VhtTable, DOMAIN NULL # VhtCursor, VhtInv,
         NEW key \in VhtKeys, VhtDel(key)
  PROVE  VhtInv' /\ (vht_iterator # NULL => vht_iterator' # NULL)
<1> DEFINE s == VhtSlotOf(vht, key)
           u == VhtWithout(vht, s)
           rest == Restrict(vht_map, DOMAIN vht_map \ {key})
<1>1. /\ vht # NULL /\ vht_map' = rest
      /\ IF VhtIsAt(vht, s, key)
         THEN vht' = u /\ vht_cut' = (vht_cut \/ VhtCutsOff(vht, s))
         ELSE vht' = vht /\ vht_cut' = vht_cut
      /\ vht_iterator' = IF vht_iterator = NULL THEN NULL
                         ELSE [vht_iterator EXCEPT !.there = @ \ {key}]
  BY DEF VhtDel, VhtWithout
<1>2. VhtShape(vht) /\ VhtLoad(vht) /\ (~vht_cut => VhtAsMap(vht, vht_map))
  BY <1>1 DEF VhtInv
<1>3. /\ VhtShape(vht') /\ VhtLoad(vht') /\ vht' # NULL
      /\ ~vht_cut' => /\ ~vht_cut /\ VhtAsMap(vht', rest)
                      /\ \A k \in DOMAIN vht_map \ {key} : VhtSlotOf(vht', k) = VhtSlotOf(vht, k)
  <2>1. CASE VhtIsAt(vht, s, key)
    <3>1. VhtShape(u) /\ u.cap = vht.cap /\ u.len = vht.len - 1
      BY <1>2, <2>1, VhtWithoutIs DEF VhtIsAt
    <3>2. ~vht_cut /\ ~VhtCutsOff(vht, s) =>
            /\ VhtAsMap(u, rest)
            /\ \A k \in DOMAIN vht_map \ {key} : VhtSlotOf(u, k) = VhtSlotOf(vht, k)
      BY <1>2, <2>1, VhtWithoutAsMap
    <3>3. vht' = u /\ vht_cut' = (vht_cut \/ VhtCutsOff(vht, s))
      BY <1>1, <2>1
    <3> HIDE DEF u, s, rest
    <3>4. vht.len \in Nat /\ vht.cap \in Nat /\ VhtMaxCap \in Nat
      BY <1>2, VhtSlotsAre, VhtAssumption DEF VhtShape, VhtCapacity
    <3>5. VhtLoad(u)
      BY <1>2, <3>1, <3>4 DEF VhtLoad
    <3>6. u # NULL
      BY <3>1 DEF VhtShape, VhtTable
    <3> QED BY <3>1, <3>2, <3>3, <3>5, <3>6
  <2>2. CASE ~VhtIsAt(vht, s, key)
    <3>1. ~vht_cut => VhtAsMap(vht, rest)
      BY <1>2, <2>2, VhtNotThere
    <3> QED BY <1>1, <1>2, <2>2, <3>1
  <2> QED BY <2>1, <2>2
<1>4. DOMAIN rest = DOMAIN vht_map \ {key}
  BY DEF Restrict
<1> HIDE DEF s, u, rest
<1>5. CASE vht_iterator = NULL
  BY <1>1, <1>3, <1>5 DEF VhtInv
<1>6. CASE vht_iterator # NULL
  <2> DEFINE it == vht_iterator
             next == [it EXCEPT !.there = @ \ {key}]
  <2>1. DOMAIN it = VhtCursor /\ it.offset \in Nat
    BY <1>6 DEF VhtInv
  <2>2. /\ DOMAIN next = VhtCursor /\ next.offset = it.offset /\ next.there = it.there \ {key}
        /\ next.gave = it.gave /\ next.grew = it.grew
    BY <2>1 DEF VhtCursor
  <2>3. vht_iterator' = next
    BY <1>1, <1>6
  <2> HIDE DEF next
  <2>4. next # NULL
    BY <2>2
  <2>5. ~vht_cut' /\ ~next.grew => VhtGave(vht', rest, next)
    <3> SUFFICES ASSUME ~vht_cut', ~next.grew PROVE VhtGave(vht', rest, next)
      OBVIOUS
    <3>1. VhtGave(vht, vht_map, it)
      BY <1>3, <1>6, <2>2 DEF VhtInv
    <3> QED BY <1>3, <1>4, <2>2, <3>1 DEF VhtGave
  <2> QED BY <1>1, <1>3, <2>1, <2>2, <2>3, <2>4, <2>5 DEF VhtInv
<1> QED BY <1>5, <1>6

LEMMA VhtCreateKeeps ==
  ASSUME DOMAIN NULL # VhtTable, VhtInv, VhtCreate
  PROVE  VhtInv'
<1> DEFINE u == vht_init(VhtInitial)
<1>1. VhtCapacity(VhtInitial)
  BY InitialSpreads DEF VhtCapacity
<1>2. VhtShape(u) /\ u.cap = VhtInitial /\ u.len = 0 /\ DOMAIN u.slots = {}
  BY <1>1, VhtInitShape
<1> HIDE DEF u
<1>3. VhtLoad(u)
  BY <1>2, InitialSpreads DEF VhtLoad
<1>4. u # NULL
  BY <1>2 DEF VhtShape, VhtTable
<1>5. vht = NULL /\ vht' = u /\ UNCHANGED <<vht_iterator, vht_map, vht_cut>>
  BY DEF VhtCreate, u
<1>6. vht_map = VhtEmpty /\ vht_iterator = NULL
  BY <1>5 DEF VhtInv
<1>7. VhtAsMap(u, VhtEmpty)
  BY <1>2 DEF VhtAsMap, VhtEmpty
<1> QED BY <1>2, <1>3, <1>4, <1>5, <1>6, <1>7 DEF VhtInv

LEMMA VhtIterateStartKeeps ==
  ASSUME DOMAIN NULL # VhtCursor, VhtInv, VhtIterateStart
  PROVE  VhtInv'
<1> DEFINE next == VhtStart(DOMAIN vht_map)
<1>1. /\ vht # NULL /\ vht_iterator' = next
      /\ UNCHANGED <<vht, vht_map, vht_cut>>
  BY DEF VhtIterateStart
<1>2. /\ DOMAIN next = VhtCursor /\ next.offset = 0 /\ next.there = DOMAIN vht_map
      /\ next.gave = {}
  BY DEF VhtStart, VhtCursor
<1> HIDE DEF next
<1>3. ~vht_cut => VhtGave(vht, vht_map, next)
  <2> SUFFICES ASSUME ~vht_cut, NEW key \in DOMAIN vht_map
               PROVE  ~(VhtSlotOf(vht, key) < 0)
    BY <1>2 DEF VhtGave
  <2>1. PICK x \in DOMAIN vht.slots : vht.slots[x].key = key
    BY <1>1 DEF VhtInv, VhtAsMap
  <2>2. VhtSlotOf(vht, key) = x
    BY <1>1, <2>1 DEF VhtInv, VhtAsMap
  <2>3. x \in 0..vht.cap - 1
    BY <1>1, <2>1 DEF VhtInv, VhtShape
  <2> QED BY <2>2, <2>3
<1> QED BY <1>1, <1>2, <1>3 DEF VhtInv

LEMMA VhtIterateNextKeeps ==
  ASSUME DOMAIN NULL # VhtCursor, VhtInv, VhtIterateNext
  PROVE  VhtInv' /\ vht_iterator' # NULL
<1> DEFINE it == vht_iterator
<1>1. PICK slot \in DOMAIN vht.slots :
        /\ slot >= it.offset
        /\ \A other \in DOMAIN vht.slots : other >= it.offset => slot <= other
        /\ vht_iterator' = [it EXCEPT !.offset = slot + 1, !.gave = @ \cup {vht.slots[slot].key}]
  BY DEF VhtIterateNext
<1>2. vht # NULL /\ it # NULL /\ UNCHANGED <<vht, vht_map, vht_cut>>
  BY DEF VhtIterateNext
<1> DEFINE next == [it EXCEPT !.offset = slot + 1, !.gave = @ \cup {vht.slots[slot].key}]
<1>3. DOMAIN it = VhtCursor /\ it.offset \in Nat
  BY <1>2 DEF VhtInv
<1>4. DOMAIN vht.slots \subseteq 0..vht.cap - 1 /\ (~vht_cut => VhtAsMap(vht, vht_map))
  BY <1>2 DEF VhtInv, VhtShape
<1>5. slot \in Nat
  BY <1>4
<1>6. /\ DOMAIN next = VhtCursor /\ next.offset = slot + 1 /\ next.there = it.there
      /\ next.gave = it.gave \cup {vht.slots[slot].key} /\ next.grew = it.grew
  BY <1>3 DEF VhtCursor
<1>7. vht_iterator' = next
  BY <1>1
<1> HIDE DEF next
<1>8. ~vht_cut /\ ~next.grew => VhtGave(vht, vht_map, next)
  <2> SUFFICES ASSUME ~vht_cut, ~next.grew, NEW key \in it.there,
                      VhtSlotOf(vht, key) < slot + 1
               PROVE  key \in next.gave /\ it.there \subseteq DOMAIN vht_map
    <3>1. ~vht_cut /\ ~next.grew => it.there \subseteq DOMAIN vht_map
      BY <1>2, <1>6 DEF VhtInv, VhtGave
    <3> QED BY <1>6, <3>1 DEF VhtGave
  <2>1. VhtGave(vht, vht_map, it)
    BY <1>2, <1>6 DEF VhtInv
  <2>2. key \in DOMAIN vht_map /\ it.there \subseteq DOMAIN vht_map
    BY <2>1 DEF VhtGave
  <2>3. CASE VhtSlotOf(vht, key) < it.offset
    BY <1>6, <2>1, <2>2, <2>3 DEF VhtGave
  <2>4. CASE ~(VhtSlotOf(vht, key) < it.offset)
    <3>1. PICK x \in DOMAIN vht.slots : vht.slots[x].key = key
      BY <1>4, <2>2 DEF VhtAsMap
    <3>2. VhtSlotOf(vht, key) = x
      BY <1>4, <3>1 DEF VhtAsMap
    <3>3. x \in Nat /\ x < slot + 1 /\ x >= it.offset
      BY <1>3, <1>4, <2>4, <3>1, <3>2
    <3>4. x = slot
      BY <1>1, <1>5, <3>1, <3>3
    <3> QED BY <1>6, <2>2, <3>1, <3>4
  <2> QED BY <2>3, <2>4
<1>9. next # NULL
  BY <1>6
<1>10. next.offset \in Nat
  BY <1>5, <1>6
<1> QED BY <1>2, <1>6, <1>7, <1>8, <1>9, <1>10 DEF VhtInv

LEMMA VhtNextKeeps ==
  ASSUME DOMAIN NULL # VhtTable, DOMAIN NULL # VhtCursor, VhtInv, [VhtNext]_vht_vars
  PROVE  VhtInv'
<1>1. CASE UNCHANGED vht_vars BY <1>1 DEF vht_vars, VhtInv
<1>2. CASE VhtCreate BY <1>2, VhtCreateKeeps
<1>3. CASE VhtDestroy BY <1>3 DEF VhtDestroy, VhtInv
<1>4. ASSUME NEW key \in VhtKeys, VhtDel(key) PROVE VhtInv' BY <1>4, VhtDelKeeps
<1>5. ASSUME NEW key \in VhtKeys, NEW val \in VhtVals, VhtSet(key, val) PROVE VhtInv'
  BY <1>5, VhtSetKeeps
<1>6. CASE VhtIterateStart BY <1>6, VhtIterateStartKeeps
<1>7. CASE VhtIterateNext BY <1>7, VhtIterateNextKeeps
<1>8. CASE VhtIterateDone BY <1>8 DEF VhtIterateDone, VhtInv
<1> QED BY <1>1, <1>2, <1>3, <1>4, <1>5, <1>6, <1>7, <1>8 DEF VhtNext

LEMMA VhtHasInv ==
  ASSUME DOMAIN NULL # VhtTable, DOMAIN NULL # VhtCursor
  PROVE  VhtSpec => []VhtInv
<1>1. VhtInit => VhtInv
  BY DEF VhtInit, VhtInv
<1>2. VhtInv /\ [VhtNext]_vht_vars => VhtInv'
  BY VhtNextKeeps
<1> QED BY <1>1, <1>2, PTL DEF VhtSpec

(* For every hash: until a deletion cuts a key off, every key is found     *)
(* with the value set last and no other is, through collisions and growth; *)
(* and whatever was cut off, len counts the slots and at most a quarter of *)
(* them is in use before a set, while there is memory (vht_get_direct      *)
(* 198-223, vht_set 225-263, vht_del 265-294, vht_double 296-343).         *)
THEOREM VhtStaysMap ==
  ASSUME DOMAIN NULL # VhtTable, DOMAIN NULL # VhtCursor
  PROVE  VhtSpec => []VhtIsMap
<1>1. VhtInv => VhtIsMap
  <2> SUFFICES ASSUME VhtInv, vht # NULL
               PROVE  /\ ~vht_cut => \A key \in VhtKeys :
                           vht_get_direct(vht, key) =
                             IF key \in DOMAIN vht_map THEN {vht_map[key]} ELSE {}
                      /\ vht.len = Cardinality(DOMAIN vht.slots)
                      /\ 4 * vht.cap <= VhtMaxCap => (vht.len - 1) * 4 < vht.cap
    BY DEF VhtIsMap
  <2>1. VhtShape(vht) /\ VhtLoad(vht) /\ (~vht_cut => VhtAsMap(vht, vht_map))
    BY DEF VhtInv
  <2>2. ~vht_cut => \A key \in VhtKeys :
          vht_get_direct(vht, key) = IF key \in DOMAIN vht_map THEN {vht_map[key]} ELSE {}
    BY <2>1, VhtGets
  <2> QED BY <2>1, <2>2 DEF VhtShape, VhtLoad
<1> QED BY <1>1, VhtHasInv, PTL

(* For every hash: an iteration that comes to its end gave every key that  *)
(* was there all the time, if the table did not grow meanwhile and no key  *)
(* was cut off (vht_iterate_next 354-392).                                 *)
THEOREM VhtIteratesAll ==
  ASSUME DOMAIN NULL # VhtTable, DOMAIN NULL # VhtCursor
  PROVE  VhtSpec => VhtIterationCovers
<1> DEFINE Ends == vht_iterator # NULL /\ vht_iterator' = NULL /\ vht' # NULL
           Covers == vht_cut \/ vht_iterator.grew \/ vht_iterator.there \subseteq vht_iterator.gave
<1>1. VhtInv /\ [VhtNext]_vht_vars => (Ends => Covers)
  <2> SUFFICES ASSUME VhtInv, [VhtNext]_vht_vars, Ends PROVE Covers
    OBVIOUS
  <2>1. VhtIterateDone
    <3>1. ~UNCHANGED vht_vars
      BY DEF vht_vars
    <3>2. ~VhtCreate /\ ~VhtDestroy /\ ~VhtIterateStart
      BY DEF VhtCreate, VhtDestroy, VhtIterateStart
    <3>3. ASSUME NEW key \in VhtKeys PROVE ~VhtDel(key)
      BY VhtDelKeeps
    <3>4. ASSUME NEW key \in VhtKeys, NEW val \in VhtVals PROVE ~VhtSet(key, val)
      BY VhtSetKeeps
    <3>5. ~VhtIterateNext
      BY VhtIterateNextKeeps
    <3> QED BY <3>1, <3>2, <3>3, <3>4, <3>5 DEF VhtNext
  <2>2. SUFFICES ASSUME ~vht_cut, ~vht_iterator.grew, NEW key \in vht_iterator.there
                 PROVE  key \in vht_iterator.gave
    OBVIOUS
  <2>3. vht # NULL /\ \A slot \in DOMAIN vht.slots : slot < vht_iterator.offset
    BY <2>1 DEF VhtIterateDone
  <2>4. VhtAsMap(vht, vht_map) /\ VhtGave(vht, vht_map, vht_iterator)
    BY <2>2, <2>3 DEF VhtInv
  <2>5. key \in DOMAIN vht_map
    BY <2>2, <2>4 DEF VhtGave
  <2>6. PICK x \in DOMAIN vht.slots : vht.slots[x].key = key
    BY <2>4, <2>5 DEF VhtAsMap
  <2>7. VhtSlotOf(vht, key) = x
    BY <2>4, <2>6 DEF VhtAsMap
  <2> QED BY <2>2, <2>3, <2>4, <2>7 DEF VhtGave
<1>2. VhtInv /\ [VhtNext]_vht_vars => [Ends => Covers]_vht_vars
  BY <1>1
<1>3. VhtSpec => [][Ends => Covers]_vht_vars
  BY <1>2, VhtHasInv, PTL DEF VhtSpec
<1> QED BY <1>3 DEF VhtIterationCovers
=============================================================================
