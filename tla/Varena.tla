------------------------------- MODULE Varena -------------------------------
(***************************************************************************)
(* Varena (src/src/varena.c): memory handed out from frames that are       *)
(* claimed and disclaimed like a stack.  The last bytes of a frame hold    *)
(* the top and the bottom of the one below it.  Sizes are size_t: sums and *)
(* differences wrap.                                                       *)
(***************************************************************************)
EXTENDS Null, Integers, FiniteSets, SequencesExt

CONSTANTS
  VarenaFrame,     (* sizeof(struct varena_frame)                          *)
  VarenaCapacity,  (* num_bytes of the arena                               *)
  VarenaWord,      (* how many values a size_t has                         *)
  VarenaSizes      (* the sizes calls ask for                              *)

ASSUME VarenaAssumption ==
  /\ VarenaFrame \in Nat \ {0} /\ VarenaCapacity \in Nat
  /\ VarenaWord \in Nat /\ VarenaWord > 2 * VarenaCapacity
  /\ VarenaSizes \subseteq (1..VarenaWord - 1)

VARIABLES
  varena,      (* the arena, or NULL; frames: the records in its bytes, by *)
               (* the position they begin at                               *)
  varena_held, (* history: for each frame, oldest first, the blocks <<from,*)
               (* to>> handed out from it and not disclaimed               *)
  varena_wild  (* history: a block was handed out with no frame claimed, or*)
               (* a sum wrapped; nothing is looked at after that           *)

varena_vars == <<varena, varena_held, varena_wild>>

VarenaInit == varena = NULL /\ varena_held = <<>> /\ varena_wild = FALSE

VarenaCreate ==
  /\ varena = NULL
  /\ varena' = [top |-> 0, bottom |-> 0, frames |-> [p \in {} |-> 0]]
  /\ UNCHANGED <<varena_held, varena_wild>>

VarenaDestroy ==
  /\ varena # NULL
  /\ varena' = NULL /\ varena_held' = <<>> /\ varena_wild' = FALSE

VarenaSum(a, b) == (a + b) % VarenaWord

(* Where the record of the current frame begins, if there is one.          *)
VarenaHasFrame(a) == a.bottom >= VarenaFrame
varena_frame_top(a) == a.bottom - VarenaFrame

VarenaStored(frames, at, frame) ==
  [p \in DOMAIN frames \cup {at} |-> IF p = at THEN frame ELSE frames[p]]

(* Mutant: the room for the record is not counted.                         *)
VarenaClaimTight(num_bytes) ==
  /\ varena # NULL /\ ~varena_wild
  /\ VarenaSum(varena.bottom, num_bytes) <= VarenaCapacity
  /\ LET bottom == VarenaSum(varena.bottom, num_bytes)
     IN varena' = [top |-> varena.bottom, bottom |-> bottom,
                   frames |-> VarenaStored(varena.frames, bottom - VarenaFrame,
                     [top |-> varena.top, bottom |-> varena.bottom])]
  /\ varena_held' = Append(varena_held, {})
  /\ varena_wild' = (varena.bottom + num_bytes >= VarenaWord)

VarenaClaim(num_bytes) ==
  /\ varena # NULL /\ ~varena_wild
  /\ LET bytes == VarenaSum(num_bytes, VarenaFrame)
         bottom == VarenaSum(varena.bottom, bytes)
     IN /\ bottom <= VarenaCapacity
        /\ varena' = [top |-> varena.bottom, bottom |-> bottom,
                      frames |-> VarenaStored(varena.frames, bottom - VarenaFrame,
                        [top |-> varena.top, bottom |-> varena.bottom])]
  /\ varena_held' = Append(varena_held, {})
  /\ varena_wild' = (varena.bottom + num_bytes + VarenaFrame >= VarenaWord)

(* The record is read back; its bytes may be handed out again.             *)
VarenaDisclaim ==
  /\ varena # NULL /\ ~varena_wild
  /\ VarenaHasFrame(varena)
  /\ LET at == varena_frame_top(varena)
     IN varena' = [top |-> varena.frames[at].top, bottom |-> varena.frames[at].bottom,
                   frames |-> Restrict(varena.frames, DOMAIN varena.frames \ {at})]
  /\ varena_held' = Front(varena_held)
  /\ UNCHANGED varena_wild

(* Without a frame the difference wraps and everything fits.               *)
VarenaAlloc(num_bytes) ==
  /\ varena # NULL /\ ~varena_wild
  /\ LET top == VarenaSum(varena.top, num_bytes)
     IN /\ top <= VarenaSum(varena.bottom, VarenaWord - VarenaFrame)
        /\ varena' = [varena EXCEPT !.top = top]
        /\ varena_wild' = (~VarenaHasFrame(varena) \/ top < varena.top)
        /\ varena_held' =
             IF VarenaHasFrame(varena)
             THEN [varena_held EXCEPT ![Len(varena_held)] = @ \cup {<<varena.top, top>>}]
             ELSE varena_held

VarenaNext ==
  \/ VarenaCreate \/ VarenaDestroy \/ VarenaDisclaim
  \/ \E n \in VarenaSizes : VarenaClaim(n) \/ VarenaAlloc(n)

VarenaSpec == VarenaInit /\ [][VarenaNext]_varena_vars

-----------------------------------------------------------------------------
(* Properties.                                                             *)

VarenaBlocks == UNION ToSet(varena_held)
VarenaRecords == {<<p, p + VarenaFrame>> : p \in DOMAIN varena.frames}
VarenaDisjoint(b, c) == b = c \/ b[2] <= c[1] \/ c[2] <= b[1]
(* The blocks of all frames and the records of the frames lie apart and    *)
(* within the arena, whatever was claimed and disclaimed in between: no    *)
(* user can write over the record that disclaim goes by.  And the blocks   *)
(* handed out from the current frame fill it without a gap from its start  *)
(* up to top, also when it is the current one again.  Unless memory was    *)
(* asked for with no frame claimed, or for a size near the largest size_t  *)
(* (varena_claim 103-132, varena_disclaim 134-155, varena_alloc 157-177).  *)
VarenaApart ==
  varena # NULL /\ ~varena_wild =>
    /\ \A b, c \in VarenaBlocks \cup VarenaRecords :
         VarenaDisjoint(b, c) /\ 0 <= b[1] /\ b[2] <= VarenaCapacity
    /\ VarenaHasFrame(varena) =>
         (UNION {b[1] .. b[2] - 1 : b \in Last(varena_held)})
           = varena.frames[varena_frame_top(varena)].bottom .. varena.top - 1
=============================================================================
