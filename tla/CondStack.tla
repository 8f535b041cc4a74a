------------------------------ MODULE CondStack ------------------------------
(***************************************************************************)
(* The conditional stack of the preprocessor (preproc.c:299-339).          *)
(*                                                                         *)
(* Every #if, #ifdef and #ifndef pushes a frame, #elif and #else rewrite   *)
(* the top frame, #endif pops it, and a line of text reaches the output    *)
(* only while cond_active() holds.  The stack is an array of 32 frames     *)
(* whose last slot cond_push never fills: a push beyond MaxFrames is       *)
(* dropped without a word, while the #elif, #else and #endif that belong   *)
(* to it still act on whatever frame is on top.                            *)
(*                                                                         *)
(* `chains' is a history of what the text says, kept apart from the frames *)
(* of the code: for every conditional open in the text, the values of the  *)
(* conditions of its branches so far, #else counting as TRUE.  `dropped'   *)
(* remembers that a push was lost.                                         *)
(***************************************************************************)
EXTENDS Integers, SequencesExt

CONSTANT MaxFrames    \* cond_push returns early when top >= MaxFrames

ASSUME MaxFramesAssumption == MaxFrames \in Nat \ {0}

VARIABLES
  cs,                 \* CondStack.frames[0 .. top-1], outermost first
  chains,             \* history: condition values of every open conditional
  dropped             \* history: some cond_push was lost

condVars == <<cs, chains, dropped>>

-----------------------------------------------------------------------------
(* The functions of the code, on a stack value.                            *)

Frame == [parent : BOOLEAN, active : BOOLEAN, matched : BOOLEAN]

(* Faulty variants of the functions below, against which the properties    *)
(* are tried: a push that forgets its surroundings, an #else and an #elif  *)
(* that do not ask whether a branch of the chain was already taken.        *)
CondPushForgetsParent(stack, parent, cond) ==
  IF Len(stack) >= MaxFrames
    THEN stack
    ELSE Append(stack, [parent |-> TRUE, active |-> cond, matched |-> cond])

CondElseIgnoresMatched(stack) ==
  IF stack = <<>> THEN stack
  ELSE [stack EXCEPT ![Len(stack)].active = Last(stack).parent]

CondElifIgnoresMatched(stack, cond) ==
  IF stack = <<>> THEN stack
  ELSE [stack EXCEPT ![Len(stack)].active = Last(stack).parent /\ cond]

CondActive(stack) == \A i \in DOMAIN stack : stack[i].active

CondPush(stack, parent, cond) ==
  IF Len(stack) >= MaxFrames
    THEN stack
    ELSE Append(stack, [parent  |-> parent,
                        active  |-> parent /\ cond,
                        matched |-> parent => cond])

(* What cond_else and cond_elif share: the top frame becomes active or     *)
(* not, and remembers that one of its branches was.                        *)
SetTop(stack, live) ==
  [stack EXCEPT ![Len(stack)] =
     [parent |-> @.parent, active |-> live, matched |-> @.matched \/ live]]

CondElse(stack) ==
  IF stack = <<>> THEN stack
  ELSE SetTop(stack, Last(stack).parent /\ ~Last(stack).matched)

CondElif(stack, cond) ==
  IF stack = <<>> THEN stack
  ELSE SetTop(stack, ~Last(stack).matched /\ Last(stack).parent /\ cond)

CondPop(stack) == IF stack = <<>> THEN stack ELSE Front(stack)

-----------------------------------------------------------------------------
(* The history.                                                            *)

(* A branch is selected when its condition holds and no earlier one of its *)
(* chain did.                                                              *)
Selected(chain) ==
  /\ Last(chain)
  /\ \A k \in 1 .. Len(chain) - 1 : ~chain[k]

(* Text is included when the open branch of every enclosing conditional is *)
(* the selected one.                                                       *)
Included(open) == \A i \in DOMAIN open : Selected(open[i])

AddBranch(open, cond) ==
  IF open = <<>> THEN open ELSE [open EXCEPT ![Len(open)] = Append(@, cond)]

-----------------------------------------------------------------------------
CondInit ==
  /\ cs = <<>>
  /\ chains = <<>>
  /\ dropped = FALSE

(* #if, #ifdef and #ifndef, whose condition evaluated to cond.             *)
If(cond) ==
  /\ cs' = CondPush(cs, CondActive(cs), cond)
  /\ chains' = Append(chains, <<cond>>)
  /\ dropped' = (dropped \/ Len(cs) >= MaxFrames)

Elif(cond) ==
  /\ cs' = CondElif(cs, cond)
  /\ chains' = AddBranch(chains, cond)
  /\ UNCHANGED dropped

Else ==
  /\ cs' = CondElse(cs)
  /\ chains' = AddBranch(chains, TRUE)
  /\ UNCHANGED dropped

Endif ==
  /\ cs' = CondPop(cs)
  /\ chains' = IF chains = <<>> THEN chains ELSE Front(chains)
  /\ UNCHANGED dropped

CondNext ==
  \/ \E cond \in BOOLEAN : If(cond) \/ Elif(cond)
  \/ Else
  \/ Endif

CondSpec == CondInit /\ [][CondNext]_condVars

-----------------------------------------------------------------------------
CondTypeOK ==
  /\ cs \in Seq(Frame)
  /\ Len(cs) <= MaxFrames
  /\ chains \in Seq(Seq(BOOLEAN) \ {<<>>})
  /\ dropped \in BOOLEAN

(* While no push was lost, the frames say exactly what the text says: the  *)
(* preprocessor emits a line if and only if the open branch of every       *)
(* enclosing conditional is the first of its chain whose condition holds.  *)
(* Stray #elif, #else and #endif are part of the behaviours.               *)
BranchSelection == ~dropped => (CondActive(cs) <=> Included(chains))

(* Every frame remembers in `parent' whether the conditionals around it    *)
(* were all active, and this stays true as long as the frame lives: so the *)
(* top frame alone decides whether text is emitted, even after a push was  *)
(* lost.                                                                   *)
ParentIsOuter ==
  \A i \in DOMAIN cs : cs[i].parent <=> \A j \in 1 .. i - 1 : cs[j].active

(* No chain is entered twice: a frame whose chain has had an active branch *)
(* never becomes active again, whatever #elif and #else follow and however *)
(* many frames come and go above it.                                       *)
NoSecondBranch ==
  [][\A i \in DOMAIN cs \cap DOMAIN cs' :
       cs[i].matched /\ ~cs[i].active => ~cs'[i].active]_condVars
=============================================================================
