---------------------------- MODULE MCStructures ----------------------------
(* The containers, which share nothing but NULL: one of them at a time is  *)
(* created, used and destroyed, so that one run goes through all of them.  *)
EXTENDS Vpool, Vqueue, Vstack, Vht, Vdll, Varray, Varena, Fqueue, Tbuf,
        TreeIterator

VARIABLE turn  (* the container that is in use                             *)

MCSlot(offset, iterate) == [offset |-> offset, iterate |-> iterate]
MCHash == [a |-> MCSlot(1, 1), b |-> MCSlot(17, 1), c |-> MCSlot(2, 3)]
MCSalt == MCSlot(1, 3)
MCBatches == {<<0, 1>>, <<0, 1, 1, 2, 2>>}

vars ==
  <<turn, vpool, vqueue_vars, vstack_vars, vht_vars, vdll, varray,
    varena_vars, fqueue_vars, tbuf_vars, <<tree, iterator>>>>

Init ==
  /\ turn \in {"vpool", "vqueue", "vstack", "vht", "vdll",
              "varray", "varena", "fqueue", "tbuf", "tree"}
  /\ VpoolInit /\ VqueueInit /\ VstackInit /\ VhtInit /\ VdllInit /\ VarrayInit
  /\ VarenaInit /\ FqueueInit /\ TbufInit /\ TreeInit /\ TreeIteratorInit

(* Nothing but the container whose turn it is changes.                     *)
Turn(name) ==
  /\ turn = name /\ UNCHANGED turn
  /\ name # "vpool" => UNCHANGED vpool
  /\ name # "vqueue" => UNCHANGED vqueue_vars
  /\ name # "vstack" => UNCHANGED vstack_vars
  /\ name # "vht" => UNCHANGED vht_vars
  /\ name # "vdll" => UNCHANGED vdll
  /\ name # "varray" => UNCHANGED varray
  /\ name # "varena" => UNCHANGED varena_vars
  /\ name # "fqueue" => UNCHANGED fqueue_vars
  /\ name # "tbuf" => UNCHANGED tbuf_vars
  /\ name # "tree" => UNCHANGED <<tree, iterator>>

Next ==
  \/ VpoolNext /\ Turn("vpool")
  \/ VqueueNext /\ Turn("vqueue")
  \/ VstackNext /\ Turn("vstack")
  \/ VhtNext /\ Turn("vht")
  \/ VdllNext /\ Turn("vdll")
  \/ VarrayNext /\ Turn("varray")
  \/ VarenaNext /\ Turn("varena")
  \/ FqueueNext /\ Turn("fqueue")
  \/ TbufNext /\ Turn("tbuf")
  \/ TreeIteratorSteps /\ Turn("tree")

Spec == Init /\ [][Next]_vars
=============================================================================
