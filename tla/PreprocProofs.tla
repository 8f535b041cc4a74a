---------------------------- MODULE PreprocProofs ----------------------------
(***************************************************************************)
(* Proofs about the preprocessor: the conditional stack, for every number  *)
(* of frames and every sequence of directives, the main loop that drives   *)
(* it, for every file system, include path and depth limit, and the lexer  *)
(* that reads what it wrote, for every size of the table of file names and *)
(* whatever the files compiled before left in it.                          *)
(***************************************************************************)
EXTENDS LineTrack, Facts, FiniteSetTheorems

-----------------------------------------------------------------------------
(* The conditional stack by itself.                                        *)
Chain == Seq(BOOLEAN) \ {<<>>}

(* The inductive invariant.  BranchSelection is not inductive by itself:   *)
(* it does not say what a frame that is inactive now may become.  FrameInv *)
(* ties each frame to the chain it stands for; since a frame's parent flag *)
(* is tied to all the chains outside it, no induction over the stack is    *)
(* needed to conclude.                                                     *)
FrameInv ==
  \A i \in 1 .. Len(cs) :
    /\ cs[i].parent <=> \A j \in 1 .. i - 1 : Selected(chains[j])
    /\ cs[i].active <=> cs[i].parent /\ Selected(chains[i])
    /\ cs[i].matched <=> (cs[i].parent => \E k \in 1 .. Len(chains[i]) : chains[i][k])

CondInv ==
  /\ CondTypeOK
  /\ ParentIsOuter
  /\ ~dropped => Len(cs) = Len(chains) /\ FrameInv

-----------------------------------------------------------------------------
(* A chain that grows by a condition: its new last branch is selected when *)
(* the condition holds and no earlier one did.                             *)
LEMMA ChainGrows ==
  ASSUME NEW ch \in Chain, NEW cond \in BOOLEAN
  PROVE  /\ Append(ch, cond) \in Chain
         /\ Selected(Append(ch, cond))
              <=> cond /\ ~ \E k \in 1 .. Len(ch) : ch[k]
         /\ (\E k \in 1 .. Len(Append(ch, cond)) : Append(ch, cond)[k])
              <=> cond \/ \E k \in 1 .. Len(ch) : ch[k]
  <1> DEFINE new == Append(ch, cond)
  <1>1. /\ new \in Seq(BOOLEAN)
        /\ Len(new) = Len(ch) + 1
        /\ new[Len(ch) + 1] = cond
        /\ \A k \in 1 .. Len(ch) : new[k] = ch[k]
        /\ Len(ch) \in Nat
    BY DEF Chain
  <1>2. new \in Chain
    BY <1>1 DEF Chain
  <1>3. Selected(new) <=> cond /\ ~ \E k \in 1 .. Len(ch) : ch[k]
    BY <1>1 DEF Selected, Last
  <1>4. (\E k \in 1 .. Len(new) : new[k]) <=> cond \/ \E k \in 1 .. Len(ch) : ch[k]
    BY <1>1
  <1>5. QED
    BY <1>2, <1>3, <1>4

LEMMA ChainStarts ==
  ASSUME NEW cond \in BOOLEAN
  PROVE  /\ <<cond>> \in Chain
         /\ Selected(<<cond>>) <=> cond
         /\ (\E k \in 1 .. Len(<<cond>>) : <<cond>>[k]) <=> cond
  BY DEF Chain, Selected, Last

(* Given the inductive invariant, all the frames are active exactly when   *)
(* the text is included.                                                   *)
LEMMA ActiveIffIncluded ==
  ASSUME CondInv, ~dropped
  PROVE  CondActive(cs) <=> Included(chains)
  <1>1. /\ cs \in Seq(Frame)
        /\ chains \in Seq(Chain)
        /\ Len(cs) = Len(chains)
        /\ DOMAIN cs = 1 .. Len(cs)
        /\ DOMAIN chains = 1 .. Len(cs)
    BY DEF CondInv, CondTypeOK, Chain
  <1>2. ASSUME CondActive(cs) PROVE Included(chains)
    BY <1>1, <1>2 DEF CondInv, FrameInv, CondActive, Included
  <1>3. ASSUME Included(chains) PROVE CondActive(cs)
    BY <1>1, <1>3 DEF CondInv, FrameInv, CondActive, Included
  <1>4. QED
    BY <1>2, <1>3

-----------------------------------------------------------------------------
(* The steps.                                                              *)

LEMMA IfStep ==
  ASSUME CondInv, NEW cond \in BOOLEAN, If(cond)
  PROVE  CondInv'
  <1> DEFINE f == [parent  |-> CondActive(cs),
                   active  |-> CondActive(cs) /\ cond,
                   matched |-> CondActive(cs) => cond]
  <1>1. /\ cs \in Seq(Frame)
        /\ Len(cs) \in Nat
        /\ Len(cs) <= MaxFrames
        /\ chains \in Seq(Chain)
        /\ Len(chains) \in Nat
        /\ DOMAIN cs = 1 .. Len(cs)
    BY DEF CondInv, CondTypeOK, Chain
  <1>2. CondActive(cs) \in BOOLEAN
    BY DEF CondActive
  <1>3. f \in Frame
    BY <1>2 DEF Frame
  <1>4. /\ chains' = Append(chains, <<cond>>)
        /\ <<cond>> \in Chain
        /\ chains' \in Seq(Chain)
        /\ Len(chains') = Len(chains) + 1
        /\ chains'[Len(chains) + 1] = <<cond>>
        /\ \A i \in 1 .. Len(chains) : chains'[i] = chains[i]
    BY <1>1, ChainStarts DEF If
  <1>5. CASE Len(cs) >= MaxFrames
    <2>1. cs' = cs /\ dropped' = TRUE
      BY <1>5 DEF If, CondPush
    <2>2. CondTypeOK'
      BY <2>1, <1>1, <1>4 DEF CondTypeOK, Chain
    <2>3. ParentIsOuter'
      BY <2>1 DEF CondInv, ParentIsOuter
    <2>4. QED
      BY <2>1, <2>2, <2>3 DEF CondInv
  <1>6. CASE ~(Len(cs) >= MaxFrames)
    <2>1. /\ cs' = Append(cs, f)
          /\ dropped' = dropped
      BY <1>6, <1>1, MaxFramesAssumption DEF If, CondPush, CondInv, CondTypeOK
    <2>2. /\ cs' \in Seq(Frame)
          /\ Len(cs') = Len(cs) + 1
          /\ cs'[Len(cs) + 1] = f
          /\ \A i \in 1 .. Len(cs) : cs'[i] = cs[i]
          /\ DOMAIN cs' = 1 .. Len(cs) + 1
      BY <2>1, <1>1, <1>3
    <2>3. CondTypeOK'
      BY <2>1, <2>2, <1>1, <1>4, <1>6, MaxFramesAssumption DEF CondTypeOK, Chain, CondInv
    <2>4. ParentIsOuter'
      <3> SUFFICES ASSUME NEW i \in 1 .. Len(cs) + 1
                   PROVE  cs'[i].parent <=> \A j \in 1 .. i - 1 : cs'[j].active
        BY <2>2 DEF ParentIsOuter
      <3>1. CASE i = Len(cs) + 1
        <4>1. cs'[i].parent = CondActive(cs)
          BY <3>1, <2>2
        <4>2. 1 .. i - 1 = 1 .. Len(cs)
          BY <3>1, <1>1
        <4>3. \A j \in 1 .. Len(cs) : cs'[j].active = cs[j].active
          BY <2>2
        <4>4. CondActive(cs) <=> \A j \in 1 .. Len(cs) : cs[j].active
          BY <1>1 DEF CondActive
        <4>5. QED
          BY <4>1, <4>2, <4>3, <4>4
      <3>2. CASE i \in 1 .. Len(cs)
        <4>1. DOMAIN cs = 1 .. Len(cs) /\ \A j \in 1 .. i - 1 : j \in 1 .. Len(cs)
          BY <3>2, <1>1
        <4>2. cs[i].parent <=> \A j \in 1 .. i - 1 : cs[j].active
          BY <3>2, <4>1 DEF CondInv, ParentIsOuter
        <4>3. cs'[i] = cs[i] /\ \A j \in 1 .. i - 1 : cs'[j] = cs[j]
          BY <3>2, <2>2, <4>1
        <4>4. QED
          BY ONLY <4>2, <4>3
      <3>3. QED
        BY <3>1, <3>2, <1>1
    <2>5. ASSUME ~dropped
          PROVE  Len(cs') = Len(chains') /\ FrameInv'
      <3>1. Len(cs) = Len(chains) /\ FrameInv
        BY <2>5 DEF CondInv
      <3>2. CondActive(cs) <=> \A j \in 1 .. Len(cs) : Selected(chains[j])
        BY <2>5, <3>1, <1>1, ActiveIffIncluded DEF Included
      <3> SUFFICES ASSUME NEW i \in 1 .. Len(cs) + 1
                   PROVE  /\ cs'[i].parent <=> \A j \in 1 .. i - 1 : Selected(chains'[j])
                          /\ cs'[i].active <=> cs'[i].parent /\ Selected(chains'[i])
                          /\ cs'[i].matched <=>
                               (cs'[i].parent => \E k \in 1 .. Len(chains'[i]) : chains'[i][k])
        BY <3>1, <2>2, <1>4 DEF FrameInv
      <3>3. CASE i = Len(cs) + 1
        <4>1. /\ cs'[i].parent = CondActive(cs)
              /\ cs'[i].active = (CondActive(cs) /\ cond)
              /\ cs'[i].matched = (CondActive(cs) => cond)
          BY <3>3, <2>2
        <4>2. /\ chains'[i] = <<cond>>
              /\ \A j \in 1 .. i - 1 : chains'[j] = chains[j]
          BY <3>1, <3>3, <1>1, <1>4
        <4>3. CondActive(cs) <=> \A j \in 1 .. i - 1 : Selected(chains'[j])
          BY <3>2, <3>3, <4>2, <1>1
        <4>4. /\ Selected(chains'[i]) <=> cond
              /\ (\E k \in 1 .. Len(chains'[i]) : chains'[i][k]) <=> cond
          BY <4>2, ChainStarts
        <4>5. QED
          BY <4>1, <4>3, <4>4, <1>2
      <3>4. CASE i \in 1 .. Len(cs)
        <4>1. /\ cs[i].parent <=> \A j \in 1 .. i - 1 : Selected(chains[j])
              /\ cs[i].active <=> cs[i].parent /\ Selected(chains[i])
              /\ cs[i].matched <=>
                   (cs[i].parent => \E k \in 1 .. Len(chains[i]) : chains[i][k])
          BY <3>1, <3>4 DEF FrameInv
        <4>2. /\ cs'[i] = cs[i]
              /\ \A j \in 1 .. i : chains'[j] = chains[j]
          BY <3>1, <3>4, <2>2, <1>1, <1>4
        <4>3. QED
          BY <4>1, <4>2, <3>4, <1>1
      <3>5. QED
        BY <3>3, <3>4, <1>1
    <2>6. QED
      BY <2>1, <2>3, <2>4, <2>5 DEF CondInv
  <1>7. QED
    BY <1>5, <1>6

(* #elif and #else do the same to the stack: the top frame becomes active  *)
(* when it is not matched, its parent is active and the condition holds.   *)
BranchOn(cond) ==
  /\ cs' = CondElif(cs, cond)
  /\ chains' = AddBranch(chains, cond)
  /\ dropped' = dropped

LEMMA ElifStep ==
  ASSUME CondInv, NEW cond \in BOOLEAN, BranchOn(cond)
  PROVE  CondInv'
  <1> DEFINE n == Len(cs)
             t == cs[n]
             live == ~t.matched /\ t.parent /\ cond
  <1>1. /\ cs \in Seq(Frame)
        /\ n \in Nat
        /\ n <= MaxFrames
        /\ chains \in Seq(Chain)
        /\ Len(chains) \in Nat
        /\ DOMAIN cs = 1 .. n
        /\ dropped' = dropped
    BY DEF CondInv, CondTypeOK, Chain, BranchOn
  <1>2. chains' \in Seq(Chain) /\ Len(chains') = Len(chains)
    <2>1. CASE chains = <<>>
      BY <2>1, <1>1 DEF BranchOn, AddBranch
    <2>2. CASE chains # <<>>
      <3>1. chains[Len(chains)] \in Chain
        BY <2>2, <1>1, EmptySeq
      <3>2. Append(chains[Len(chains)], cond) \in Chain
        BY <3>1, ChainGrows
      <3>3. QED
        BY <3>2, <2>2, <1>1 DEF BranchOn, AddBranch
    <2>3. QED
      BY <2>1, <2>2
  <1>3. CASE cs = <<>>
    <2>1. cs' = cs /\ n = 0
      BY <1>3 DEF BranchOn, CondElif
    <2>2. CondTypeOK'
      BY <2>1, <1>1, <1>2 DEF CondTypeOK, Chain, CondInv
    <2>3. ParentIsOuter'
      BY <2>1 DEF CondInv, ParentIsOuter
    <2>4. ~dropped => Len(cs') = Len(chains') /\ FrameInv'
      BY <2>1, <1>1, <1>2 DEF CondInv, FrameInv
    <2>5. QED
      BY <2>2, <2>3, <2>4, <1>1 DEF CondInv
  <1>4. CASE cs # <<>>
    <2>1. n \in 1 .. n /\ t \in Frame
      BY <1>1, <1>4, EmptySeq
    <2>2. live \in BOOLEAN
      OBVIOUS
    <2> DEFINE f == [parent |-> t.parent, active |-> live, matched |-> t.matched \/ live]
    <2>3. f \in Frame
      BY <2>1, <2>2 DEF Frame
    <2>4. cs' = [cs EXCEPT ![n] = f]
      BY <1>4, <1>1, <2>1 DEF BranchOn, CondElif, SetTop, Last
    <2>5. /\ cs' \in Seq(Frame)
          /\ Len(cs') = n
          /\ cs'[n] = f
          /\ \A i \in 1 .. n - 1 : cs'[i] = cs[i]
          /\ DOMAIN cs' = 1 .. n
      BY <2>4, <2>3, <2>1, <1>1
    <2>6. CondTypeOK'
      BY <2>5, <1>1, <1>2 DEF CondTypeOK, Chain, CondInv
    <2>7. ParentIsOuter'
      <3> SUFFICES ASSUME NEW i \in 1 .. n
                   PROVE  cs'[i].parent <=> \A j \in 1 .. i - 1 : cs'[j].active
        BY <2>5 DEF ParentIsOuter
      <3>1. cs'[i].parent = cs[i].parent
        BY <2>5, <1>1
      <3>2. \A j \in 1 .. i - 1 : cs'[j] = cs[j]
        BY <2>5, <1>1
      <3>3. cs[i].parent <=> \A j \in 1 .. i - 1 : cs[j].active
        BY <1>1 DEF CondInv, ParentIsOuter
      <3>4. QED
        BY <3>1, <3>2, <3>3
    <2>8. ASSUME ~dropped
          PROVE  Len(cs') = Len(chains') /\ FrameInv'
      <3>1. n = Len(chains) /\ FrameInv
        BY <2>8 DEF CondInv
      <3>2. chains[n] \in Chain /\ chains # <<>>
        BY <3>1, <2>1, <1>1, EmptySeq
      <3>3. /\ chains' = [chains EXCEPT ![n] = Append(chains[n], cond)]
            /\ chains'[n] = Append(chains[n], cond)
            /\ \A j \in 1 .. n - 1 : chains'[j] = chains[j]
        <4>1. chains' = [chains EXCEPT ![n] = Append(chains[n], cond)]
          BY <3>1, <3>2 DEF BranchOn, AddBranch
        <4>2. DOMAIN chains = 1 .. n
          BY <3>1, <1>1
        <4> HIDE DEF n
        <4>3. QED
          BY <4>1, <4>2, <2>1, <1>1
      <3> SUFFICES ASSUME NEW i \in 1 .. n
                   PROVE  /\ cs'[i].parent <=> \A j \in 1 .. i - 1 : Selected(chains'[j])
                          /\ cs'[i].active <=> cs'[i].parent /\ Selected(chains'[i])
                          /\ cs'[i].matched <=>
                               (cs'[i].parent => \E k \in 1 .. Len(chains'[i]) : chains'[i][k])
        BY <3>1, <2>5, <1>2 DEF FrameInv
      <3>4. /\ cs[i].parent <=> \A j \in 1 .. i - 1 : Selected(chains[j])
            /\ cs[i].active <=> cs[i].parent /\ Selected(chains[i])
            /\ cs[i].matched <=>
                 (cs[i].parent => \E k \in 1 .. Len(chains[i]) : chains[i][k])
        BY <3>1 DEF FrameInv
      <3>9. n \in Nat
        BY <1>1
      <3>10. i = n \/ i \in 1 .. n - 1
        BY <3>9
      <3> HIDE DEF n, t, live, f
      <3>5. \A j \in 1 .. i - 1 : chains'[j] = chains[j]
        BY <3>3, <3>9
      <3>6. CASE i = n
        <4>1. /\ cs'[i].parent = t.parent
              /\ cs'[i].active = live
              /\ cs'[i].matched = (t.matched \/ live)
          BY <3>6, <2>5 DEF f
        <4>2. /\ Selected(chains'[i])
                   <=> cond /\ ~ \E k \in 1 .. Len(chains[i]) : chains[i][k]
              /\ (\E k \in 1 .. Len(chains'[i]) : chains'[i][k])
                   <=> cond \/ \E k \in 1 .. Len(chains[i]) : chains[i][k]
          <5>1. chains[i] \in Chain /\ chains'[i] = Append(chains[i], cond)
            BY <3>2, <3>3, <3>6
          <5>2. QED
            BY <5>1, ChainGrows
        <4>3. t = cs[i]
          BY <3>6 DEF t
        <4>4. QED
          BY <4>1, <4>2, <4>3, <3>4, <3>5, <2>2, <2>1 DEF Frame, live
      <3>7. CASE i \in 1 .. n - 1
        <4>1. cs'[i] = cs[i] /\ chains'[i] = chains[i]
          BY <3>7, <3>3, <2>5
        <4>2. QED
          BY <4>1, <3>4, <3>5
      <3>8. QED
        BY <3>6, <3>7, <3>10
    <2>9. QED
      BY <2>6, <2>7, <2>8, <1>1 DEF CondInv
  <1>5. QED
    BY <1>3, <1>4

LEMMA ElseStep ==
  ASSUME CondInv, Else
  PROVE  CondInv'
  <1>1. CondElse(cs) = CondElif(cs, TRUE)
    BY DEF CondElse, CondElif, CondInv, CondTypeOK, Frame
  <1>2. BranchOn(TRUE)
    BY <1>1 DEF Else, BranchOn
  <1>3. QED
    BY <1>2, ElifStep

LEMMA EndifStep ==
  ASSUME CondInv, Endif
  PROVE  CondInv'
  <1>1. /\ cs \in Seq(Frame)
        /\ chains \in Seq(Chain)
        /\ dropped' = dropped
    BY DEF CondInv, CondTypeOK, Chain, Endif
  <1>2. /\ cs' \in Seq(Frame)
        /\ cs = <<>> => cs' = cs
        /\ cs # <<>> => Len(cs) \in Nat \ {0} /\ Len(cs') = Len(cs) - 1
        /\ Len(cs') \in Nat
        /\ Len(cs') <= Len(cs)
        /\ \A i \in 1 .. Len(cs') : cs'[i] = cs[i]
    BY <1>1, FrontFacts, EmptySeq DEF Endif, CondPop
  <1>3. /\ chains' \in Seq(Chain)
        /\ chains = <<>> => chains' = chains
        /\ chains # <<>> => Len(chains) \in Nat \ {0} /\ Len(chains') = Len(chains) - 1
        /\ Len(chains') \in Nat
        /\ Len(chains') <= Len(chains)
        /\ \A i \in 1 .. Len(chains') : chains'[i] = chains[i]
    BY <1>1, FrontFacts, EmptySeq DEF Endif
  <1>4. CondTypeOK'
    BY <1>1, <1>2, <1>3, MaxFramesAssumption DEF CondInv, CondTypeOK, Chain
  <1>5. ParentIsOuter'
    <2> SUFFICES ASSUME NEW i \in 1 .. Len(cs')
                 PROVE  cs'[i].parent <=> \A j \in 1 .. i - 1 : cs'[j].active
      BY <1>2 DEF ParentIsOuter
    <2>1. i \in DOMAIN cs /\ cs'[i] = cs[i] /\ \A j \in 1 .. i - 1 : cs'[j] = cs[j]
      BY <1>1, <1>2
    <2>2. QED
      BY <2>1 DEF CondInv, ParentIsOuter
  <1>6. ASSUME ~dropped
        PROVE  Len(cs') = Len(chains') /\ FrameInv'
    <2>1. Len(cs) = Len(chains) /\ FrameInv
      BY <1>6 DEF CondInv
    <2>2. Len(cs') = Len(chains')
      BY <2>1, <1>1, <1>2, <1>3, EmptySeq
    <2> SUFFICES ASSUME NEW i \in 1 .. Len(cs')
                 PROVE  /\ cs'[i].parent <=> \A j \in 1 .. i - 1 : Selected(chains'[j])
                        /\ cs'[i].active <=> cs'[i].parent /\ Selected(chains'[i])
                        /\ cs'[i].matched <=>
                             (cs'[i].parent => \E k \in 1 .. Len(chains'[i]) : chains'[i][k])
      BY <2>2 DEF FrameInv
    <2>3. /\ i \in 1 .. Len(cs)
          /\ cs'[i] = cs[i]
          /\ \A j \in 1 .. i : chains'[j] = chains[j]
      BY <2>2, <1>1, <1>2, <1>3
    <2>4. QED
      BY <2>1, <2>3, <1>1 DEF FrameInv
  <1>7. QED
    BY <1>1, <1>4, <1>5, <1>6 DEF CondInv

-----------------------------------------------------------------------------
LEMMA CondInvInit == CondInit => CondInv
  <1> SUFFICES ASSUME CondInit PROVE CondInv
    OBVIOUS
  <1>1. /\ cs \in Seq(Frame) /\ Len(cs) = 0 /\ DOMAIN cs = {}
        /\ chains \in Seq(Seq(BOOLEAN) \ {<<>>}) /\ Len(chains) = 0
        /\ dropped = FALSE
    BY DEF CondInit
  <1>2. CondTypeOK
    <2>1. Len(cs) <= MaxFrames
      BY <1>1, MaxFramesAssumption
    <2>2. QED
      BY <1>1, <2>1, Zenon DEF CondTypeOK
  <1>3. ParentIsOuter
    BY <1>1 DEF ParentIsOuter
  <1>4. Len(cs) = Len(chains) /\ FrameInv
    BY <1>1 DEF FrameInv
  <1>5. QED
    BY <1>2, <1>3, <1>4 DEF CondInv

LEMMA CondInvStep == CondInv /\ [CondNext]_condVars => CondInv'
  <1> SUFFICES ASSUME CondInv, [CondNext]_condVars
               PROVE  CondInv'
    OBVIOUS
  <1>1. ASSUME NEW cond \in BOOLEAN, If(cond) PROVE CondInv'
    BY <1>1, IfStep
  <1>2. ASSUME NEW cond \in BOOLEAN, Elif(cond) PROVE CondInv'
    BY <1>2, ElifStep DEF Elif, BranchOn
  <1>3. CASE Else
    BY <1>3, ElseStep
  <1>4. CASE Endif
    BY <1>4, EndifStep
  <1>5. CASE UNCHANGED condVars
    BY <1>5 DEF condVars, CondInv, CondTypeOK, ParentIsOuter, FrameInv, Selected
  <1>6. QED
    BY <1>1, <1>2, <1>3, <1>4, <1>5 DEF CondNext

(* The variables keep their types, and cond_push never fills more than     *)
(* MaxFrames slots of its array.                                           *)
THEOREM CondTypeCorrect == CondSpec => []CondTypeOK
  <1>1. CondInv => CondTypeOK
    BY DEF CondInv
  <1>2. QED
    BY <1>1, CondInvInit, CondInvStep, PTL DEF CondSpec

(* As long as no #if was dropped, the preprocessor emits a line exactly    *)
(* when the open branch of every enclosing conditional is the first of its *)
(* chain whose condition holds, for any nesting and any directives.        *)
THEOREM BranchSelectionHolds == CondSpec => []BranchSelection
  <1>1. CondInv => BranchSelection
    BY ActiveIffIncluded DEF BranchSelection
  <1>2. QED
    BY <1>1, CondInvInit, CondInvStep, PTL DEF CondSpec

(* Every frame's parent flag stays the conjunction of the frames below it, *)
(* dropped pushes or not.                                                  *)
THEOREM ParentIsOuterHolds == CondSpec => []ParentIsOuter
  <1>1. CondInv => ParentIsOuter
    BY DEF CondInv
  <1>2. QED
    BY <1>1, CondInvInit, CondInvStep, PTL DEF CondSpec

(* What a step leaves of a frame: frames below the top stay as they are,   *)
(* and the top one, if it survives, is not reactivated once matched.       *)
LEMMA NoSecondBranchStep ==
  ASSUME CondTypeOK, [CondNext]_condVars,
         NEW i \in DOMAIN cs \cap DOMAIN cs', cs[i].matched, ~cs[i].active
  PROVE  ~cs'[i].active
  <1>1. /\ cs \in Seq(Frame) /\ DOMAIN cs = 1 .. Len(cs) /\ Len(cs) \in Nat
        /\ i \in 1 .. Len(cs) /\ cs # <<>>
    BY DEF CondTypeOK
  <1>2. ASSUME NEW cond \in BOOLEAN, If(cond) PROVE ~cs'[i].active
    <2> DEFINE f == [parent  |-> CondActive(cs),
                     active  |-> CondActive(cs) /\ cond,
                     matched |-> CondActive(cs) => cond]
    <2>1. f \in Frame
      BY DEF CondActive, Frame
    <2> HIDE DEF f
    <2>2. cs' = cs \/ cs' = Append(cs, f)
      BY <1>2 DEF If, CondPush, f
    <2>3. cs'[i] = cs[i]
      BY <2>1, <2>2, <1>1
    <2>4. QED
      BY <2>3
  <1>3. ASSUME NEW live, live => ~Last(cs).matched, cs' = SetTop(cs, live)
        PROVE  ~cs'[i].active
    <2>1. CASE i = Len(cs)
      <3>1. cs'[i].active = live
        BY <1>1, <1>3, <2>1 DEF SetTop
      <3>2. QED
        BY <3>1, <1>3, <2>1 DEF Last
    <2>2. CASE i # Len(cs)
      BY <1>1, <1>3, <2>2 DEF SetTop
    <2>3. QED
      BY <2>1, <2>2
  <1>4. ASSUME NEW cond \in BOOLEAN, Elif(cond) PROVE ~cs'[i].active
    BY <1>1, <1>3, <1>4 DEF Elif, CondElif
  <1>5. CASE Else
    BY <1>1, <1>3, <1>5 DEF Else, CondElse
  <1>6. CASE Endif
    <2>1. cs' = Front(cs)
      BY <1>1, <1>6 DEF Endif, CondPop
    <2>2. Len(cs') = Len(cs) - 1 /\ cs' \in Seq(Frame)
      BY <1>1, <2>1, FrontFacts
    <2>3. i \in 1 .. Len(cs) - 1
      BY <1>1, <2>2
    <2>4. cs'[i] = cs[i]
      BY <1>1, <2>1, <2>3, FrontFacts
    <2>5. QED
      BY <2>4
  <1>7. CASE UNCHANGED condVars
    BY <1>7 DEF condVars
  <1>8. QED
    BY <1>2, <1>4, <1>5, <1>6, <1>7 DEF CondNext

(* No conditional ever has two active branches: once a chain was entered   *)
(* and left, no #elif or #else enters it again.                            *)
THEOREM NoSecondBranchHolds == CondSpec => NoSecondBranch
  <1>1. CondTypeOK /\ [CondNext]_condVars
          => [\A i \in DOMAIN cs \cap DOMAIN cs' :
                cs[i].matched /\ ~cs[i].active => ~cs'[i].active]_condVars
    BY NoSecondBranchStep
  <1>2. QED
    BY <1>1, CondTypeCorrect, PTL DEF CondSpec, NoSecondBranch

-----------------------------------------------------------------------------
(* The conditional stack, seen from the main loop.                         *)

LEMMA OnlyConditionals == [Next]_vars => [CondNext]_condVars
<1> SUFFICES ASSUME [Next]_vars PROVE [CondNext]_condVars
  OBVIOUS
<1>1. CASE IfDirective
  <2>1. \E cond \in BOOLEAN : If(cond)
    <3>1. (Here.name \in DOMAIN macros) \in BOOLEAN /\ (Here.name \notin DOMAIN macros) \in BOOLEAN
      OBVIOUS
    <3>2. EvalCond(macros, Here.cond) \in BOOLEAN
      BY DEF EvalCond
    <3>3. QED
      BY <1>1, <3>1, <3>2, Zenon DEF IfDirective
  <2>2. QED
    BY <2>1 DEF CondNext
<1>2. CASE BranchDirective
  <2>1. EvalCond(macros, Here.cond) \in BOOLEAN
    BY DEF EvalCond
  <2>2. (\E cond \in BOOLEAN : Elif(cond)) \/ Else \/ Endif
    BY <1>2, <2>1, Zenon DEF BranchDirective
  <2>3. QED
    BY <2>2 DEF CondNext
<1>3. CASE ~IfDirective /\ ~BranchDirective
  <2>1. UNCHANGED condVars
    BY <1>3, Zenon DEF Next, vars, Open, OpenFails, Include, IncludeTooDeep, IncludeFails,
       IncludeSkipped, Return, Finish, Define, Undef, Message, PassThrough, TextLine
  <2>2. QED
    BY <2>1
<1>4. QED
  BY <1>1, <1>2, <1>3

(* The preprocessor treats the conditional stack the way CondStack says:   *)
(* no include, return or end of a file touches it.                         *)
THEOREM PreprocDrivesCondStack == Spec => CondSpec
<1>1. Init => CondInit
  BY DEF Init
<1>2. QED
  BY <1>1, OnlyConditionals, PTL DEF Spec, CondSpec

(* Hence what is proved of the stack holds in every run of the             *)
(* preprocessor, across includes.                                          *)
THEOREM PreprocSelectsBranches == Spec => []BranchSelection
BY PreprocDrivesCondStack, BranchSelectionHolds, PTL

THEOREM PreprocParentIsOuter == Spec => []ParentIsOuter
BY PreprocDrivesCondStack, ParentIsOuterHolds, PTL

LEMMA CondInvAlways == Spec => []CondInv
<1>1. CondSpec => []CondInv
  BY CondInvInit, CondInvStep, PTL DEF CondSpec
<1>2. QED
  BY <1>1, PreprocDrivesCondStack, PTL

-----------------------------------------------------------------------------
(* The chain of includes.                                                  *)

(* CallChain as a relation of a file system and a chain of activations, so *)
(* that what happens to the chain can be said of values.                   *)
Includes(fs, call, path) ==
  LET line == fs[call.path][call.line]
      dirs == SearchPath(call.path[1], line.system)
      hits == {i \in DOMAIN dirs : <<dirs[i], line.name>> \in DOMAIN fs}
  IN  /\ call.line <= Len(fs[call.path])
      /\ line.op = "include"
      /\ hits # {}
      /\ path = <<dirs[Min(hits)], line.name>>

Chained(fs, s) ==
  /\ Len(s) <= MaxIncludeDepth
  /\ \A i \in 1 .. Len(s) : s[i].path \in DOMAIN fs
  /\ \A i \in 1 .. Len(s) - 1 : Includes(fs, s[i], s[i + 1].path)

(* The inductive invariant: CallChain with the types of what it is about.  *)
CallInv ==
  /\ files \in Sources
  /\ calls \in Seq(Call)
  /\ status = "running" <=> calls # <<>>
  /\ Chained(files, calls)

LEMMA LeastIndex ==
  ASSUME NEW S, S \subseteq Nat, S # {}
  PROVE  Min(S) \in S
<1>1. \E x \in S : \A y \in S : x <= y
  BY LeastExists
<1>2. QED
  BY <1>1 DEF Min

(* The file an include resolves to exists.                                 *)
LEMMA ResolvedExists ==
  ASSUME NEW dir \in STRING, NEW line, Hits(dir, line) # {}
  PROVE  Resolve(dir, line) \in DOMAIN files
<1>1. SearchPath(dir, line.system) \in Seq(STRING)
  <2>1. CASE line.system
    BY <2>1, PreprocAssumption DEF SearchPath
  <2>2. CASE ~line.system
    BY <2>2, PreprocAssumption DEF SearchPath
  <2>3. QED
    BY <2>1, <2>2
<1>2. Hits(dir, line) \subseteq Nat
  BY <1>1 DEF Hits
<1>3. Min(Hits(dir, line)) \in Hits(dir, line)
  BY <1>2, LeastIndex
<1>4. QED
  BY <1>3 DEF Resolve, Hits

(* The innermost activation moves on in its file, ...                      *)
LEMMA TopMoves ==
  ASSUME NEW fs, NEW s \in Seq(Call), s # <<>>, Chained(fs, s),
         NEW c \in Call, c.path = s[Len(s)].path
  PROVE  LET t == [s EXCEPT ![Len(s)] = c]
         IN  t \in Seq(Call) /\ t # <<>> /\ Chained(fs, t)
<1> DEFINE n == Len(s)
           t == [s EXCEPT ![n] = c]
<1>1. n \in Nat \ {0}
  BY EmptySeq
<1>2. /\ t \in Seq(Call) /\ Len(t) = n
      /\ t[n] = c
      /\ \A i \in 1 .. n : i # n => t[i] = s[i]
  BY <1>1, Replaced
<1>3. \A i \in 1 .. n : s[i].path \in DOMAIN fs
  BY DEF Chained
<1>4. \A i \in 1 .. n - 1 : Includes(fs, s[i], s[i + 1].path)
  BY DEF Chained
<1>5. n <= MaxIncludeDepth
  BY DEF Chained
<1>6. c.path = s[n].path
  OBVIOUS
<1> HIDE DEF n, t
<1>7. \A i \in 1 .. n : t[i].path = s[i].path
  BY <1>1, <1>2, <1>6
<1>8. \A i \in 1 .. n - 1 : Includes(fs, t[i], t[i + 1].path)
  <2>1. SUFFICES ASSUME NEW i \in 1 .. n - 1
                 PROVE  Includes(fs, t[i], t[i + 1].path)
    OBVIOUS
  <2>2. i \in 1 .. n /\ i + 1 \in 1 .. n /\ i # n
    BY <1>1
  <2>3. t[i] = s[i] /\ t[i + 1].path = s[i + 1].path
    BY <1>2, <1>7, <2>2
  <2>4. QED
    BY <1>4, <2>3
<1>9. Chained(fs, t)
  BY <1>2, <1>3, <1>5, <1>7, <1>8 DEF Chained
<1>10. QED
  BY <1>1, <1>2, <1>9 DEF n, t

(* ... it includes a file, ...                                             *)
LEMMA ChainEnters ==
  ASSUME NEW fs, NEW s \in Seq(Call), s # <<>>, Chained(fs, s),
         Len(s) < MaxIncludeDepth,
         NEW c \in Call, c.path \in DOMAIN fs, Includes(fs, s[Len(s)], c.path)
  PROVE  /\ Append(s, c) \in Seq(Call)
         /\ Append(s, c) # <<>>
         /\ Chained(fs, Append(s, c))
<1> DEFINE n == Len(s)
           t == Append(s, c)
<1>1. n \in Nat \ {0} /\ MaxIncludeDepth \in Nat
  BY EmptySeq, PreprocAssumption
<1>2. /\ t \in Seq(Call) /\ Len(t) = n + 1
      /\ t[n + 1] = c
      /\ \A i \in 1 .. n : t[i] = s[i]
  BY <1>1
<1>3. \A i \in 1 .. n : s[i].path \in DOMAIN fs
  BY DEF Chained
<1>4. \A i \in 1 .. n - 1 : Includes(fs, s[i], s[i + 1].path)
  BY DEF Chained
<1>5. n < MaxIncludeDepth /\ Includes(fs, s[n], c.path)
  OBVIOUS
<1> HIDE DEF n, t
<1>6. \A i \in 1 .. n + 1 : t[i].path \in DOMAIN fs
  BY <1>1, <1>2, <1>3
<1>7. \A i \in 1 .. n : Includes(fs, t[i], t[i + 1].path)
  <2>1. SUFFICES ASSUME NEW i \in 1 .. n
                 PROVE  Includes(fs, t[i], t[i + 1].path)
    OBVIOUS
  <2>2. CASE i = n
    BY <1>1, <1>2, <1>5, <2>2
  <2>3. CASE i # n
    <3>1. i \in 1 .. n - 1 /\ i + 1 \in 1 .. n
      BY <1>1, <2>3
    <3>2. t[i] = s[i] /\ t[i + 1] = s[i + 1]
      BY <1>2, <3>1
    <3>3. QED
      BY <1>4, <3>1, <3>2
  <2>4. QED
    BY <2>2, <2>3
<1>8. Chained(fs, t)
  <2>1. Len(t) <= MaxIncludeDepth /\ 1 .. Len(t) = 1 .. n + 1 /\ 1 .. Len(t) - 1 = 1 .. n
    BY ONLY <1>1, <1>2, <1>5
  <2>2. QED
    BY ONLY <1>6, <1>7, <2>1 DEF Chained
<1>9. QED
  BY <1>1, <1>2, <1>8 DEF t

(* ... or it is over.                                                      *)
LEMMA ChainLeaves ==
  ASSUME NEW fs, NEW s \in Seq(Call), Len(s) > 1, Chained(fs, s)
  PROVE  /\ Front(s) \in Seq(Call)
         /\ Front(s) # <<>>
         /\ Len(Front(s)) = Len(s) - 1
         /\ Front(s)[Len(s) - 1] = s[Len(s) - 1]
         /\ Chained(fs, Front(s))
<1> DEFINE n == Len(s)
           t == Front(s)
<1>1. n \in Nat /\ n > 1 /\ MaxIncludeDepth \in Nat /\ s # <<>>
  BY PreprocAssumption
<1>2. /\ t \in Seq(Call) /\ Len(t) = n - 1
      /\ \A i \in 1 .. n - 1 : t[i] = s[i]
  BY <1>1, FrontFacts
<1>3. \A i \in 1 .. n : s[i].path \in DOMAIN fs
  BY DEF Chained
<1>4. \A i \in 1 .. n - 1 : Includes(fs, s[i], s[i + 1].path)
  BY DEF Chained
<1>5. n <= MaxIncludeDepth
  BY DEF Chained
<1> HIDE DEF n, t
<1>6. \A i \in 1 .. n - 2 : Includes(fs, t[i], t[i + 1].path)
  <2>1. SUFFICES ASSUME NEW i \in 1 .. n - 2
                 PROVE  Includes(fs, t[i], t[i + 1].path)
    OBVIOUS
  <2>2. i \in 1 .. n - 1 /\ i + 1 \in 1 .. n - 1
    BY <1>1
  <2>3. QED
    BY <1>2, <1>4, <2>2
<1>7. \A i \in 1 .. n - 1 : t[i].path \in DOMAIN fs
  BY <1>1, <1>2, <1>3
<1>8. Chained(fs, t)
  <2>1. Len(t) <= MaxIncludeDepth /\ 1 .. Len(t) = 1 .. n - 1 /\ 1 .. Len(t) - 1 = 1 .. n - 2
    BY ONLY <1>1, <1>2, <1>5
  <2>2. QED
    BY ONLY <1>6, <1>7, <2>1 DEF Chained
<1>9. QED
  BY <1>1, <1>2, <1>8 DEF n, t

-----------------------------------------------------------------------------
(* The steps of the main loop.                                             *)

(* What CallInv gives about the activation that runs.                      *)
LEMMA Running ==
  ASSUME CallInv, status = "running"
  PROVE  /\ calls \in Seq(Call) /\ calls # <<>> /\ Len(calls) \in Nat \ {0}
         /\ Cur = calls[Len(calls)] /\ Cur \in Call
         /\ Cur.path \in DOMAIN files /\ Cur.path[1] \in STRING
         /\ \A p \in DOMAIN files : Len(files[p]) \in Nat
<1>1. calls \in Seq(Call) /\ calls # <<>>
  BY DEF CallInv
<1>2. Len(calls) \in Nat \ {0}
  BY <1>1, EmptySeq
<1>3. Cur = calls[Len(calls)] /\ Cur \in Call
  BY <1>1, <1>2 DEF Cur, Last
<1>4. Cur.path \in DOMAIN files
  BY <1>2, <1>3 DEF CallInv, Chained
<1>5. FileSystem(files)
  BY PreprocAssumption DEF CallInv
<1>6. Cur.path[1] \in STRING
  BY <1>4, <1>5 DEF FileSystem, Path
<1>7. \A p \in DOMAIN files : Len(files[p]) \in Nat
  BY <1>5 DEF FileSystem
<1>8. QED
  BY <1>1, <1>2, <1>3, <1>4, <1>6, <1>7

(* Every step but Open, OpenFails, Include, Return and Finish leaves the   *)
(* chain alone but for the place in the innermost file.                    *)
Moves ==
  /\ status = "running"
  /\ UNCHANGED <<files, status>>
  /\ \/ NextLine
     \/ calls' = [calls EXCEPT ![Len(calls)] = Resumed(@)]

LEMMA CallMoves ==
  ASSUME NEW c \in Call
  PROVE  /\ [c EXCEPT !.line = @ + 1] \in Call /\ [c EXCEPT !.line = @ + 1].path = c.path
         /\ Resumed(c) \in Call /\ Resumed(c).path = c.path
<1>1. /\ c = [path |-> c.path, line |-> c.line, included |-> c.included, base |-> c.base]
      /\ c.path \in Path /\ c.line \in Nat \ {0} /\ c.included \in BOOLEAN /\ c.base \in Seq(Frame)
  BY DEF Call
<1>2. c.line + 1 \in Nat \ {0}
  BY <1>1
<1>3. [c EXCEPT !.line = @ + 1]
        = [path |-> c.path, line |-> c.line + 1, included |-> c.included, base |-> c.base]
  BY <1>1
<1>4. Resumed(c)
        = [path |-> c.path, line |-> c.line + 1, included |-> TRUE, base |-> c.base]
  BY <1>1 DEF Resumed
<1>5. QED
  BY <1>1, <1>2, <1>3, <1>4 DEF Call

LEMMA MovesStep ==
  ASSUME CallInv, Moves
  PROVE  CallInv'
<1>1. /\ calls \in Seq(Call) /\ calls # <<>> /\ Len(calls) \in Nat \ {0}
      /\ Cur = calls[Len(calls)] /\ Cur \in Call
  BY Running DEF Moves
<1>2. \E c \in Call : /\ c.path = calls[Len(calls)].path
                     /\ calls' = [calls EXCEPT ![Len(calls)] = c]
  <2>1. CASE NextLine
    <3>1. [Cur EXCEPT !.line = @ + 1] \in Call /\ [Cur EXCEPT !.line = @ + 1].path = Cur.path
      BY <1>1, CallMoves
    <3>2. calls' = [calls EXCEPT ![Len(calls)] = [Cur EXCEPT !.line = @ + 1]]
      BY <1>1, <2>1 DEF NextLine
    <3>3. QED
      BY <1>1, <3>1, <3>2
  <2>2. CASE calls' = [calls EXCEPT ![Len(calls)] = Resumed(@)]
    <3>1. Resumed(Cur) \in Call /\ Resumed(Cur).path = Cur.path
      BY <1>1, CallMoves
    <3>2. calls' = [calls EXCEPT ![Len(calls)] = Resumed(Cur)]
      BY <1>1, <2>2 DEF Resumed
    <3>3. QED
      BY <1>1, <3>1, <3>2
  <2>3. QED
    BY <2>1, <2>2 DEF Moves
<1>3. Chained(files, calls)
  BY DEF CallInv
<1>4. calls' \in Seq(Call) /\ calls' # <<>> /\ Chained(files, calls')
  <2>1. PICK c \in Call : /\ c.path = calls[Len(calls)].path
                          /\ calls' = [calls EXCEPT ![Len(calls)] = c]
    BY <1>2
  <2>2. LET t == [calls EXCEPT ![Len(calls)] = c]
        IN  t \in Seq(Call) /\ t # <<>> /\ Chained(files, t)
    BY <1>1, <1>3, <2>1, TopMoves
  <2>3. QED
    BY <2>1, <2>2
<1>5. files' = files /\ status' = "running" /\ files \in Sources
  BY DEF Moves, CallInv
<1>6. Chained(files', calls')
  BY <1>4, <1>5
<1>7. QED
  BY <1>4, <1>5, <1>6 DEF CallInv

LEMMA EntersStep ==
  ASSUME CallInv, CondTypeOK, Include
  PROVE  CallInv'
<1>1. status = "running" /\ UNCHANGED <<files, status>>
  BY DEF Include, At
<1>2. /\ calls \in Seq(Call) /\ calls # <<>> /\ Len(calls) \in Nat \ {0}
      /\ Cur = calls[Len(calls)] /\ Cur \in Call
      /\ Cur.path \in DOMAIN files /\ Cur.path[1] \in STRING
      /\ \A p \in DOMAIN files : Len(files[p]) \in Nat
  BY <1>1, Running
<1> DEFINE path == Resolve(Cur.path[1], Here)
           c == Enter(path, cs)
<1>3. /\ Hits(Cur.path[1], Here) # {} /\ Len(calls) < MaxIncludeDepth
      /\ calls' = Append(calls, c)
      /\ Here.op = "include" /\ ~AtEnd
  BY DEF Include, At
<1>4. path \in DOMAIN files
  BY <1>2, <1>3, ResolvedExists
<1>5. path \in Path
  BY <1>4, PreprocAssumption DEF CallInv, FileSystem
<1>6. c \in Call /\ c.path = path
  BY <1>5 DEF Enter, Call, CondTypeOK
<1>7. Includes(files, Cur, path)
  <2>1. Cur.line <= Len(files[Cur.path])
    BY <1>2, <1>3 DEF AtEnd, Call
  <2>2. QED
    BY <1>3, <2>1 DEF Includes, Hits, Resolve, Here
<1>8. Chained(files, calls)
  BY DEF CallInv
<1> HIDE DEF path, c
<1>9. calls' \in Seq(Call) /\ calls' # <<>> /\ Chained(files, calls')
  BY <1>2, <1>3, <1>4, <1>6, <1>7, <1>8, ChainEnters
<1>10. Chained(files', calls') /\ files' \in Sources
  BY <1>1, <1>9 DEF CallInv
<1>11. QED
  BY <1>1, <1>9, <1>10 DEF CallInv

LEMMA LeavesStep ==
  ASSUME CallInv, Return
  PROVE  CallInv'
<1>1. status = "running" /\ UNCHANGED <<files, status>> /\ Len(calls) > 1
  BY DEF Return
<1>2. calls \in Seq(Call) /\ Len(calls) \in Nat \ {0} /\ Chained(files, calls)
  BY <1>1, Running DEF CallInv
<1> DEFINE n == Len(calls) - 1
           t == Front(calls)
<1>3. calls' = [t EXCEPT ![n] = Resumed(@)]
  BY DEF Return
<1>4. /\ t \in Seq(Call) /\ t # <<>> /\ Len(t) = n /\ n \in Nat \ {0}
      /\ Chained(files, t)
  BY <1>1, <1>2, ChainLeaves
<1> HIDE DEF n, t
<1>5. t[n] \in Call
  BY <1>4
<1>6. Resumed(t[n]) \in Call /\ Resumed(t[n]).path = t[n].path
  BY <1>5, CallMoves
<1>7. calls' = [t EXCEPT ![Len(t)] = Resumed(t[n])]
  BY <1>3, <1>4
<1>8. calls' \in Seq(Call) /\ calls' # <<>> /\ Chained(files, calls')
  BY <1>4, <1>6, <1>7, TopMoves
<1>9. Chained(files', calls') /\ files' \in Sources
  BY <1>1, <1>8 DEF CallInv
<1>10. QED
  BY <1>1, <1>8, <1>9 DEF CallInv

LEMMA CallInvInit == Init => CallInv
<1> SUFFICES ASSUME Init PROVE CallInv
  OBVIOUS
<1>1. calls = <<>> /\ files \in Sources /\ status = "start"
  BY DEF Init, PpInit
<1>2. Len(calls) = 0 /\ calls \in Seq(Call)
  BY <1>1
<1>3. Chained(files, calls)
  BY <1>2, PreprocAssumption DEF Chained
<1>4. QED
  BY <1>1, <1>2, <1>3 DEF CallInv

LEMMA CallInvStep == CallInv /\ CondTypeOK /\ [Next]_vars => CallInv'
<1> SUFFICES ASSUME CallInv, CondTypeOK, [Next]_vars PROVE CallInv'
  OBVIOUS
<1>1. CASE Open
  <2>1. calls' = <<Enter(Main, <<>>)>> /\ status' = "running" /\ files' = files
        /\ Main \in DOMAIN files
    BY <1>1 DEF Open
  <2>2. Enter(Main, <<>>) \in Call /\ Enter(Main, <<>>).path = Main
    BY PreprocAssumption DEF Enter, Call
  <2>3. /\ calls' \in Seq(Call) /\ calls' # <<>> /\ Len(calls') = 1
        /\ calls'[1].path = Main
    BY <2>1, <2>2
  <2>4. Chained(files', calls')
    BY <2>1, <2>3, PreprocAssumption DEF Chained
  <2>5. QED
    BY <2>1, <2>3, <2>4 DEF CallInv
<1>2. CASE OpenFails
  <2>1. calls' = calls /\ files' = files /\ status' # "running" /\ status # "running"
    BY <1>2 DEF OpenFails
  <2>2. QED
    BY <2>1 DEF CallInv
<1>3. CASE Include
  BY <1>3, EntersStep
<1>4. CASE Return
  BY <1>4, LeavesStep
<1>5. CASE Finish
  <2>1. calls' = <<>> /\ files' = files /\ status' = "done"
    BY <1>5 DEF Finish
  <2>2. Len(calls') = 0 /\ calls' \in Seq(Call)
    BY <2>1
  <2>3. Chained(files', calls')
    BY <2>2, PreprocAssumption DEF Chained
  <2>4. QED
    BY <2>1, <2>2, <2>3 DEF CallInv
<1>6. CASE IncludeTooDeep \/ IncludeFails \/ IncludeSkipped \/ Define \/ Undef
             \/ IfDirective \/ BranchDirective \/ Message \/ PassThrough \/ TextLine
  <2>1. Moves
    BY <1>6, Zenon DEF Moves, IncludeTooDeep, IncludeFails, IncludeSkipped, Define, Undef,
       IfDirective, BranchDirective, Message, PassThrough, TextLine, Blank, At
  <2>2. QED
    BY <2>1, MovesStep
<1>7. CASE UNCHANGED vars
  <2>1. calls' = calls /\ files' = files /\ status' = status
    BY <1>7 DEF vars, ppVars
  <2>2. QED
    BY <2>1 DEF CallInv
<1>8. QED
  BY <1>1, <1>2, <1>3, <1>4, <1>5, <1>6, <1>7 DEF Next

LEMMA CallInvAlways == Spec => []CallInv
<1>1. Spec => []CondTypeOK
  BY PreprocDrivesCondStack, CondTypeCorrect, PTL
<1>2. QED
  BY <1>1, CallInvInit, CallInvStep, PTL DEF Spec

(* The recursion of preprocess_file never goes deeper than the limit, and  *)
(* every activation that waits stands at the #include line that resolves   *)
(* to the file of the next one.                                            *)
THEOREM CallChainHolds == Spec => []CallChain
<1>1. CallInv => CallChain
  <2> SUFFICES ASSUME CallInv PROVE CallChain
    OBVIOUS
  <2>1. calls \in Seq(Call) /\ DOMAIN calls = 1 .. Len(calls) /\ Chained(files, calls)
    BY DEF CallInv
  <2>2. QED
    BY <2>1 DEF Chained, Includes, CallChain, Hits, Resolve
<1>2. QED
  BY <1>1, CallInvAlways, PTL

-----------------------------------------------------------------------------
(* What is skipped.                                                        *)

(* The output is a sequence.  What its lines hold is computed by macro     *)
(* expansion, about which nothing is assumed.                              *)
Elements(s) == {s[i] : i \in DOMAIN s}
OutIsSeq == out \in Seq(Elements(out))

LEMMA SeqGrows ==
  ASSUME NEW s, s \in Seq(Elements(s)), NEW T, NEW t \in Seq(T)
  PROVE  /\ s \o t \in Seq(Elements(s \o t))
         /\ Len(s \o t) = Len(s) + Len(t) /\ Len(s) \in Nat /\ Len(t) \in Nat
         /\ \A i \in Len(s) + 1 .. Len(s \o t) : (s \o t)[i] = t[i - Len(s)]
<1> DEFINE S == Elements(s) \cup T
           u == s \o t
<1>1. s \in Seq(S) /\ t \in Seq(S)
  <2>1. Elements(s) \subseteq S /\ T \subseteq S
    OBVIOUS
  <2> HIDE DEF S
  <2>2. QED
    BY <2>1
<1> HIDE DEF S
<1>2. /\ u \in Seq(S) /\ Len(u) = Len(s) + Len(t) /\ Len(s) \in Nat /\ Len(t) \in Nat
      /\ \A i \in Len(s) + 1 .. Len(u) : u[i] = t[i - Len(s)]
  BY <1>1
<1> HIDE DEF u
<1>3. u \in Seq(Elements(u))
  <2>1. u = [i \in 1 .. Len(u) |-> u[i]] /\ Len(u) \in Nat /\ DOMAIN u = 1 .. Len(u)
    BY <1>2
  <2>2. \A i \in 1 .. Len(u) : u[i] \in Elements(u)
    BY <2>1 DEF Elements
  <2>3. QED
    BY <2>1, <2>2
<1>4. QED
  BY <1>2, <1>3 DEF u

(* Every step writes at most two lines.                                    *)
LEMMA PutsFew ==
  [Next]_vars => \/ out' = out
                 \/ \E x : Put(<<x>>)
                 \/ \E x, y : Put(<<x, y>>)
<1> SUFFICES ASSUME [Next]_vars
             PROVE  \/ out' = out
                    \/ \E x : Put(<<x>>)
                    \/ \E x, y : Put(<<x, y>>)
  OBVIOUS
<1>1. CASE OpenFails \/ Finish \/ UNCHANGED vars
  BY <1>1 DEF OpenFails, Finish, vars, ppVars
<1>2. CASE Open \/ Include
  BY <1>2 DEF Open, Include
<1>3. CASE IncludeTooDeep \/ Return
  BY <1>3, Zenon DEF IncludeTooDeep, Return, AfterInclude
<1>4. CASE IncludeFails \/ IncludeSkipped \/ Define \/ Undef \/ IfDirective
             \/ BranchDirective \/ Message
  BY <1>4, Zenon DEF IncludeFails, IncludeSkipped, Define, Undef, IfDirective,
     BranchDirective, Message, Blank
<1>5. CASE PassThrough
  BY <1>5 DEF PassThrough
<1>6. CASE TextLine
  BY <1>6, Zenon DEF TextLine
<1>7. QED
  BY <1>1, <1>2, <1>3, <1>4, <1>5, <1>6 DEF Next

LEMMA OutIsSeqStep == OutIsSeq /\ [Next]_vars => OutIsSeq'
<1> SUFFICES ASSUME OutIsSeq, [Next]_vars PROVE OutIsSeq'
  OBVIOUS
<1>1. out \in Seq(Elements(out))
  BY DEF OutIsSeq
<1>2. CASE out' = out
  BY <1>1, <1>2 DEF OutIsSeq
<1>3. ASSUME NEW x, Put(<<x>>) PROVE OutIsSeq'
  <2>1. <<x>> \in Seq({x})
    OBVIOUS
  <2>2. out \o <<x>> \in Seq(Elements(out \o <<x>>))
    BY <1>1, <2>1, SeqGrows
  <2>3. QED
    BY <1>3, <2>2 DEF Put, OutIsSeq
<1>4. ASSUME NEW x, NEW y, Put(<<x, y>>) PROVE OutIsSeq'
  <2>1. <<x, y>> \in Seq({x, y})
    OBVIOUS
  <2>2. out \o <<x, y>> \in Seq(Elements(out \o <<x, y>>))
    BY <1>1, <2>1, SeqGrows
  <2>3. QED
    BY <1>4, <2>2 DEF Put, OutIsSeq
<1>5. QED
  BY <1>2, <1>3, <1>4, PutsFew

(* Before the main file is opened no conditional is open.                  *)
StartInv == status = "start" => chains = <<>>

LEMMA StartInvStep == StartInv /\ [Next]_vars => StartInv'
<1> SUFFICES ASSUME StartInv, [Next]_vars, status' = "start" PROVE chains' = <<>>
  BY DEF StartInv
<1>1. UNCHANGED vars
  BY DEF Next, Open, OpenFails, Include, IncludeTooDeep, IncludeFails, IncludeSkipped, Return,
     Finish, Define, Undef, IfDirective, BranchDirective, Message, PassThrough, TextLine, At
<1>2. QED
  BY <1>1 DEF StartInv, vars, ppVars, condVars

(* What a step does to the output when it writes no text.                  *)
NoText == \A i \in Len(out) + 1 .. Len(out') : out'[i].k = "text" => out'[i].toks = <<>>

LEMMA NothingPut ==
  ASSUME OutIsSeq, out' = out
  PROVE  NoText
<1>1. Len(out) \in Nat
  BY DEF OutIsSeq
<1>2. QED
  BY <1>1 DEF NoText

LEMMA OnePut ==
  ASSUME OutIsSeq, NEW x, Put(<<x>>), x.k = "text" => x.toks = <<>>
  PROVE  NoText
<1> DEFINE t == <<x>>
<1>1. t \in Seq({x}) /\ Len(t) = 1 /\ t[1] = x
  OBVIOUS
<1>2. out' = out \o t /\ out \in Seq(Elements(out))
  BY DEF Put, OutIsSeq
<1> HIDE DEF t
<1>3. /\ Len(out') = Len(out) + 1 /\ Len(out) \in Nat
      /\ \A i \in Len(out) + 1 .. Len(out') : out'[i] = t[i - Len(out)]
  BY <1>1, <1>2, SeqGrows
<1>4. \A i \in Len(out) + 1 .. Len(out') : out'[i] = x
  BY <1>1, <1>3
<1>5. QED
  BY <1>4 DEF NoText

LEMMA IncludeOverPut ==
  ASSUME OutIsSeq, NEW call, Put(AfterInclude(call))
  PROVE  NoText
<1> DEFINE x == Marker(call.line + 1, call.path)
           y == Text([call EXCEPT !.included = TRUE], <<>>)
           t == <<x, y>>
<1>1. x.k # "text" /\ y.toks = <<>>
  BY DEF Marker, Text
<1>2. out' = out \o t /\ out \in Seq(Elements(out))
  BY DEF Put, OutIsSeq, AfterInclude
<1> HIDE DEF x, y
<1>3. t \in Seq({x, y}) /\ Len(t) = 2 /\ t[1] = x /\ t[2] = y
  OBVIOUS
<1> HIDE DEF t
<1>4. /\ Len(out') = Len(out) + 2 /\ Len(out) \in Nat
      /\ \A i \in Len(out) + 1 .. Len(out') : out'[i] = t[i - Len(out)]
  BY <1>2, <1>3, SeqGrows
<1>5. \A i \in Len(out) + 1 .. Len(out') : out'[i] = x \/ out'[i] = y
  BY <1>3, <1>4
<1>6. QED
  BY <1>1, <1>5 DEF NoText

LEMMA BlankPut ==
  ASSUME OutIsSeq, Put(<<Text(Cur, <<>>)>>)
  PROVE  NoText
<1>1. Text(Cur, <<>>).toks = <<>>
  BY DEF Text
<1>2. QED
  BY <1>1, OnePut

LEMMA PutOne ==
  ASSUME OutIsSeq, NEW x, Put(<<x>>)
  PROVE  Len(out') = Len(out) + 1 /\ out'[Len(out) + 1] = x
<1> DEFINE t == <<x>>
<1>1. t \in Seq({x}) /\ Len(t) = 1 /\ t[1] = x
  OBVIOUS
<1>2. out' = out \o t /\ out \in Seq(Elements(out))
  BY DEF Put, OutIsSeq
<1> HIDE DEF t
<1>3. /\ Len(out') = Len(out) + 1 /\ Len(out) \in Nat
      /\ \A i \in Len(out) + 1 .. Len(out') : out'[i] = t[i - Len(out)]
  BY <1>1, <1>2, SeqGrows
<1> QED BY <1>1, <1>3

LEMMA PutTwo ==
  ASSUME OutIsSeq, NEW x, NEW y, Put(<<x, y>>)
  PROVE  Len(out') = Len(out) + 2 /\ out'[Len(out) + 1] = x /\ out'[Len(out) + 2] = y
<1> DEFINE t == <<x, y>>
<1>1. t \in Seq({x, y}) /\ Len(t) = 2 /\ t[1] = x /\ t[2] = y
  OBVIOUS
<1>2. out' = out \o t /\ out \in Seq(Elements(out))
  BY DEF Put, OutIsSeq
<1> HIDE DEF t
<1>3. /\ Len(out') = Len(out) + 2 /\ Len(out) \in Nat
      /\ \A i \in Len(out) + 1 .. Len(out') : out'[i] = t[i - Len(out)]
  BY <1>1, <1>2, SeqGrows
<1> QED BY <1>1, <1>3

(* The chain of activations does not grow while a file is read on.         *)
LEMMA MovesKeepDepth ==
  ASSUME CallInv, status = "running",
         NextLine \/ calls' = [calls EXCEPT ![Len(calls)] = Resumed(@)]
  PROVE  Len(calls') <= Len(calls)
<1>1. calls \in Seq(Call) /\ Len(calls) \in Nat
  BY Running
<1>2. Len(calls') = Len(calls)
  BY <1>1 DEF NextLine
<1>3. QED
  BY <1>1, <1>2

OnlyCopies ==
  \A i \in Len(out) + 1 .. Len(out') :
    \/ out'[i].k = "text" /\ out'[i].toks = <<>>
    \/ At({"pragma"}) /\ out'[i].k = "pragma"
    \/ At({"line"}) /\ out'[i].k = "marker" /\ out'[i].user
    \/ Len(calls') < Len(calls) /\ out'[i].k \in {"marker", "cut"} /\ ~out'[i].user

LEMMA NothingCopied ==
  ASSUME OutIsSeq, out' = out
  PROVE  OnlyCopies
<1>1. Len(out) \in Nat /\ Len(out') = Len(out)
  BY DEF OutIsSeq
<1>2. \A i \in Len(out) + 1 .. Len(out') : FALSE
  BY <1>1
<1> QED BY <1>2 DEF OnlyCopies

LEMMA OneCopied ==
  ASSUME OutIsSeq, NEW x, Put(<<x>>),
         \/ x.k = "text" /\ x.toks = <<>>
         \/ At({"pragma"}) /\ x.k = "pragma"
         \/ At({"line"}) /\ x.k = "marker" /\ x.user
  PROVE  OnlyCopies
<1>1. Len(out) \in Nat /\ Len(out') = Len(out) + 1 /\ out'[Len(out) + 1] = x
  BY PutOne DEF OutIsSeq
<1>2. \A i \in Len(out) + 1 .. Len(out') : out'[i] = x
  BY <1>1
<1> QED BY <1>2 DEF OnlyCopies

LEMMA ReturnCopied ==
  ASSUME OutIsSeq, NEW call, Put(AfterInclude(call)), Len(calls') < Len(calls)
  PROVE  OnlyCopies
<1> DEFINE x == Marker(call.line + 1, call.path)
           y == Text([call EXCEPT !.included = TRUE], <<>>)
<1>1. x.k \in {"marker", "cut"} /\ ~x.user /\ y.k = "text" /\ y.toks = <<>>
  BY DEF Marker, Text
<1>2. Put(<<x, y>>)
  BY DEF AfterInclude
<1> HIDE DEF x, y
<1>3. /\ Len(out) \in Nat /\ Len(out') = Len(out) + 2
      /\ out'[Len(out) + 1] = x /\ out'[Len(out) + 2] = y
  BY <1>2, PutTwo DEF OutIsSeq
<1>4. \A i \in Len(out) + 1 .. Len(out') : out'[i] = x \/ out'[i] = y
  <2> SUFFICES ASSUME NEW i \in Len(out) + 1 .. Len(out') PROVE out'[i] = x \/ out'[i] = y
    OBVIOUS
  <2>1. i = Len(out) + 1 \/ i = Len(out) + 2
    BY <1>3
  <2> QED BY <1>3, <2>1
<1> QED BY <1>1, <1>4 DEF OnlyCopies

LEMMA SkippedStep ==
  ASSUME CondInv, CallInv, OutIsSeq, StartInv, [Next]_vars, ~dropped, ~Included(chains)
  PROVE  macros' = macros /\ diags' = diags /\ Len(calls') <= Len(calls) /\ OnlyCopies
<1>1. ~CondActive(cs)
  BY ActiveIffIncluded
<1>2. status # "start"
  <2>1. Included(<<>>)
    BY DEF Included
  <2>2. QED
    BY <2>1 DEF StartInv
<1>3. CASE UNCHANGED vars
  <2>1. macros' = macros /\ diags' = diags /\ calls' = calls /\ out' = out
    BY <1>3 DEF vars, ppVars
  <2>2. Len(calls) \in Nat
    BY DEF CallInv
  <2>3. QED
    BY <2>1, <2>2, NothingCopied
<1>4. CASE Return
  <2>1. macros' = macros /\ diags' = diags /\ status = "running" /\ Len(calls) > 1
        /\ Put(AfterInclude(calls[Len(calls) - 1]))
        /\ calls' = [Front(calls) EXCEPT ![Len(calls) - 1] = Resumed(@)]
    BY <1>4 DEF Return
  <2>2. calls \in Seq(Call) /\ Len(calls) \in Nat /\ Chained(files, calls)
    BY <2>1, Running DEF CallInv
  <2>3. Front(calls) \in Seq(Call) /\ Len(Front(calls)) = Len(calls) - 1
    BY <2>1, <2>2, ChainLeaves
  <2>4. Len(calls') = Len(calls) - 1
    BY <2>1, <2>3
  <2>5. OnlyCopies
    BY <2>1, <2>2, <2>4, ReturnCopied
  <2>6. QED
    BY <2>1, <2>2, <2>4, <2>5
<1>5. CASE Finish
  <2>1. macros' = macros /\ diags' = diags /\ Len(calls) = 1 /\ calls' = <<>> /\ out' = out
    BY <1>5 DEF Finish
  <2>2. QED
    BY <2>1, NothingCopied
<1>6. CASE IncludeSkipped \/ Define \/ Undef \/ IfDirective \/ BranchDirective
             \/ Message \/ TextLine
  <2>1. /\ macros' = macros /\ diags' = diags /\ NextLine /\ status = "running"
        /\ Put(<<Text(Cur, <<>>)>>)
    BY <1>1, <1>6, Zenon DEF IncludeSkipped, Define, Undef, IfDirective, BranchDirective,
       Message, TextLine, Blank, At
  <2>2. Text(Cur, <<>>).k = "text" /\ Text(Cur, <<>>).toks = <<>>
    BY DEF Text
  <2>3. OnlyCopies
    BY <2>1, <2>2, OneCopied
  <2>4. QED
    BY <2>1, <2>3, MovesKeepDepth
<1>7. CASE PassThrough
  <2>1. /\ macros' = macros /\ diags' = diags /\ NextLine /\ status = "running"
    BY <1>7 DEF PassThrough, At
  <2>2. OnlyCopies
    <3>1. CASE Here.op = "pragma"
      <4>1. Put(<<[k |-> "pragma"]>>) /\ At({"pragma"})
        BY <1>7, <3>1 DEF PassThrough, At
      <4>2. [k |-> "pragma"].k = "pragma"
        OBVIOUS
      <4> QED BY <4>1, <4>2, OneCopied
    <3>2. CASE Here.op # "pragma"
      <4> DEFINE x == UserMarker(Here.num, Here.path)
      <4>1. x.k = "marker" /\ x.user
        BY DEF UserMarker
      <4> HIDE DEF x
      <4>2. Put(<<x>>) /\ At({"line"})
        BY <1>7, <3>2 DEF PassThrough, At, x
      <4> QED BY <4>1, <4>2, OneCopied
    <3> QED BY <3>1, <3>2
  <2>3. QED
    BY <2>1, <2>2, MovesKeepDepth
<1>8. ~Open /\ ~OpenFails /\ ~Include /\ ~IncludeTooDeep /\ ~IncludeFails
  BY <1>1, <1>2 DEF Open, OpenFails, Include, IncludeTooDeep, IncludeFails
<1>9. QED
  BY <1>3, <1>4, <1>5, <1>6, <1>7, <1>8, Zenon DEF Next

(* In a skipped region no macro is defined or removed, no file is entered, *)
(* nothing is reported, and nothing but blank lines is written: but for    *)
(* the copies of #pragma and #line and the marker at the end of a file.    *)
THEOREM SkippedOnlyCopiesHolds == Spec => SkippedOnlyCopies
<1>1. Init => OutIsSeq /\ StartInv
  <2>1. ASSUME Init PROVE OutIsSeq /\ StartInv
    BY <2>1 DEF Init, PpInit, CondInit, OutIsSeq, StartInv
  <2>2. QED
    BY <2>1
<1>2. CondInv /\ CallInv /\ OutIsSeq /\ StartInv /\ [Next]_vars
        => [~dropped /\ ~Included(chains) =>
              /\ macros' = macros
              /\ diags' = diags
              /\ Len(calls') <= Len(calls)
              /\ OnlyCopies]_vars
  BY SkippedStep
<1>3. QED
  BY <1>1, <1>2, CondInvAlways, CallInvAlways, OutIsSeqStep, StartInvStep, PTL
     DEF Spec, SkippedOnlyCopies, OnlyCopies

-----------------------------------------------------------------------------
-----------------------------------------------------------------------------
(* How many conditionals are open, line by line.                           *)
Opening == {"ifdef", "ifndef", "if"}

LEMMA CountStep ==
  ASSUME NEW f, NEW S, NEW k \in Nat \ {0}
  PROVE  /\ Cardinality({j \in 1 .. k - 1 : f[j].op \in S}) \in Nat
         /\ Cardinality({j \in 1 .. k : f[j].op \in S})
              = Cardinality({j \in 1 .. k - 1 : f[j].op \in S}) + (IF f[k].op \in S THEN 1 ELSE 0)
<1> DEFINE A == {j \in 1 .. k - 1 : f[j].op \in S}
           B == {j \in 1 .. k : f[j].op \in S}
<1>1. IsFiniteSet(A)
  <2>1. IsFiniteSet(1 .. k - 1)
    BY FS_Interval
  <2> QED BY <2>1, FS_Subset
<1>2. B = IF f[k].op \in S THEN A \cup {k} ELSE A
  OBVIOUS
<1>3. k \notin A
  OBVIOUS
<1> HIDE DEF A, B
<1>4. Cardinality(A) \in Nat
  BY <1>1, FS_CardinalityType
<1>5. Cardinality(A \cup {k}) = Cardinality(A) + 1
  BY <1>1, <1>3, FS_AddElement
<1>6. Cardinality(B) = Cardinality(A) + (IF f[k].op \in S THEN 1 ELSE 0)
  BY <1>2, <1>4, <1>5
<1> QED BY <1>4, <1>6 DEF A, B

LEMMA OpenInStep ==
  ASSUME NEW f, NEW k \in Nat \ {0}
  PROVE  /\ OpenIn(f, k - 1) \in Int
         /\ f[k].op \in Opening => OpenIn(f, k) = OpenIn(f, k - 1) + 1
         /\ f[k].op = "endif" => OpenIn(f, k) = OpenIn(f, k - 1) - 1
         /\ f[k].op \notin Opening \cup {"endif"} => OpenIn(f, k) = OpenIn(f, k - 1)
<1> DEFINE a(n) == Cardinality({j \in 1 .. n : f[j].op \in {"ifdef", "ifndef", "if"}})
           b(n) == Cardinality({j \in 1 .. n : f[j].op = "endif"})
           c(n) == Cardinality({j \in 1 .. n : f[j].op \in {"endif"}})
<1>1. b(k) = c(k) /\ b(k - 1) = c(k - 1)
  <2>1. \A n : {j \in 1 .. n : f[j].op = "endif"} = {j \in 1 .. n : f[j].op \in {"endif"}}
    OBVIOUS
  <2> QED BY <2>1
<1>2. a(k - 1) \in Nat /\ a(k) = a(k - 1) + (IF f[k].op \in {"ifdef", "ifndef", "if"} THEN 1 ELSE 0)
  BY CountStep
<1>3. c(k - 1) \in Nat /\ c(k) = c(k - 1) + (IF f[k].op \in {"endif"} THEN 1 ELSE 0)
  BY CountStep
<1>4. OpenIn(f, k) = a(k) - b(k) /\ OpenIn(f, k - 1) = a(k - 1) - b(k - 1)
  BY DEF OpenIn
<1> HIDE DEF a, b, c
<1> QED BY <1>1, <1>2, <1>3, <1>4 DEF Opening

LEMMA OpenInNone == ASSUME NEW f PROVE OpenIn(f, 0) = 0
<1>1. \A S : {j \in 1 .. 0 : f[j].op \in S} = {} /\ {j \in 1 .. 0 : f[j].op = "endif"} = {}
  OBVIOUS
<1> QED BY <1>1, FS_EmptySet DEF OpenIn

(* A sequence of frames under another one.                                 *)
Under(s, t) == Len(s) <= Len(t) /\ \A j \in 1 .. Len(s) : s[j] = t[j]

LEMMA UnderFacts ==
  ASSUME NEW S, NEW s \in Seq(S), NEW t \in Seq(S), Under(s, t)
  PROVE  IsPrefix(s, t) /\ (Len(s) = Len(t) => s = t)
<1>1. Len(s) \in Nat /\ Len(t) \in Nat /\ Len(s) <= Len(t) /\ \A j \in 1 .. Len(s) : s[j] = t[j]
  BY DEF Under
<1>2. SubSeq(s, 1, Len(s)) = [j \in 1 .. Len(s) |-> s[j]]
  BY <1>1
<1>3. SubSeq(t, 1, Len(s)) = [j \in 1 .. Len(s) |-> t[j]]
  BY <1>1
<1>4. SubSeq(s, 1, Len(s)) = SubSeq(t, 1, Len(s))
  BY <1>1, <1>2, <1>3
<1>5. IsPrefix(s, t)
  BY <1>1, <1>4 DEF IsPrefix
<1>6. ASSUME Len(s) = Len(t) PROVE s = t
  BY <1>1, <1>6
<1> QED BY <1>5, <1>6

-----------------------------------------------------------------------------
(* What a line that is read does to the stack: it grows by a frame, loses  *)
(* one, or has its top frame rewritten.                                    *)
StackMoves(op) ==
  /\ Len(cs') = Len(cs) + (IF op \in Opening THEN 1
                           ELSE IF op = "endif" /\ Len(cs) > 0 THEN -1 ELSE 0)
  /\ \A j \in 1 .. Len(cs) : j < Len(cs) => cs'[j] = cs[j]
  /\ op \notin {"elif", "else", "endif"} /\ Len(cs) > 0 => cs'[Len(cs)] = cs[Len(cs)]

ReadsOn ==
  \/ IncludeTooDeep \/ IncludeFails \/ IncludeSkipped \/ Define \/ Undef
  \/ IfDirective \/ BranchDirective \/ Message \/ PassThrough \/ TextLine

LEMMA SetTopFacts ==
  ASSUME NEW s \in Seq(Frame), s # <<>>, NEW live \in BOOLEAN
  PROVE  /\ Len(SetTop(s, live)) = Len(s)
         /\ \A j \in 1 .. Len(s) : j < Len(s) => SetTop(s, live)[j] = s[j]
<1> DEFINE n == Len(s)
           e == [parent |-> s[n].parent, active |-> live, matched |-> s[n].matched \/ live]
<1>1. n \in 1 .. Len(s) /\ s[n] \in Frame
  BY EmptySeq
<1>2. e \in Frame
  BY <1>1 DEF Frame
<1>3. SetTop(s, live) = [s EXCEPT ![n] = e]
  BY <1>1 DEF SetTop
<1> HIDE DEF n, e
<1>4. Len(SetTop(s, live)) = Len(s) /\ \A j \in 1 .. Len(s) : j # n => SetTop(s, live)[j] = s[j]
  BY <1>1, <1>2, <1>3, Replaced
<1> QED BY <1>1, <1>4 DEF n

LEMMA StackStep ==
  ASSUME CondTypeOK, ReadsOn, ~dropped'
  PROVE  StackMoves(Here.op) /\ ~dropped
<1> DEFINE op == Here.op
<1>1. cs \in Seq(Frame) /\ Len(cs) \in Nat
  BY DEF CondTypeOK
<1>2. CASE IfDirective
  <2>1. op \in Opening
    BY <1>2 DEF IfDirective, At, Opening
  <2>2. PICK cond \in BOOLEAN : If(cond)
    <3>1. (Here.name \in DOMAIN macros) \in BOOLEAN /\ (Here.name \notin DOMAIN macros) \in BOOLEAN
      OBVIOUS
    <3>2. EvalCond(macros, Here.cond) \in BOOLEAN
      BY DEF EvalCond
    <3>3. \E cond \in BOOLEAN : If(cond)
      BY <1>2, <3>1, <3>2, Zenon DEF IfDirective
    <3> QED BY <3>3
  <2>3. ~dropped /\ Len(cs) < MaxFrames
    <3>1. dropped' = (dropped \/ Len(cs) >= MaxFrames)
      BY <2>2 DEF If
    <3>2. ~(dropped \/ Len(cs) >= MaxFrames)
      BY <3>1, Zenon
    <3> QED BY <1>1, <3>2, MaxFramesAssumption
  <2> DEFINE f == [parent |-> CondActive(cs), active |-> CondActive(cs) /\ cond,
                      matched |-> CondActive(cs) => cond]
  <2>4. cs' = Append(cs, f)
    BY <2>2, <2>3, <1>1, MaxFramesAssumption DEF If, CondPush
  <2>5. CondActive(cs) \in BOOLEAN
    BY DEF CondActive
  <2>6. f \in Frame
    BY <2>5 DEF Frame
  <2> HIDE DEF f
  <2>7. Len(cs') = Len(cs) + 1 /\ \A j \in 1 .. Len(cs) : cs'[j] = cs[j]
    BY <1>1, <2>4, <2>6
  <2>8. Len(cs) > 0 => Len(cs) \in 1 .. Len(cs)
    BY <1>1
  <2> QED BY <2>1, <2>3, <2>7, <2>8 DEF StackMoves
<1>3. CASE BranchDirective
  <2>1. CASE op = "endif"
    <3>1. Endif
      BY <1>3, <2>1 DEF BranchDirective, At
    <3>2. ~dropped /\ cs' = CondPop(cs)
      BY <3>1 DEF Endif
    <3>3. CASE cs = <<>>
      BY <1>1, <2>1, <3>2, <3>3 DEF StackMoves, CondPop, Opening
    <3>4. CASE cs # <<>>
      <4>1. cs' = Front(cs) /\ Len(cs) \in Nat \ {0}
        BY <1>1, <3>2, <3>4, EmptySeq DEF CondPop
      <4>2. Len(cs') = Len(cs) - 1 /\ \A j \in 1 .. Len(cs) - 1 : cs'[j] = cs[j]
        BY <1>1, <3>4, <4>1, FrontFacts
      <4> QED BY <2>1, <3>2, <4>1, <4>2 DEF StackMoves, Opening
    <3> QED BY <3>3, <3>4
  <2>2. CASE op # "endif"
    <3>1. op \in {"elif", "else"}
      BY <1>3, <2>2 DEF BranchDirective, At
    <3>2. ~dropped /\ (cs' = cs \/ \E live \in BOOLEAN : cs # <<>> /\ cs' = SetTop(cs, live))
      <4>1. CASE Elif(EvalCond(macros, Here.cond))
        <5>1. ~dropped /\ cs' = CondElif(cs, EvalCond(macros, Here.cond))
          BY <4>1 DEF Elif
        <5>2. CASE cs = <<>>
          BY <5>1, <5>2 DEF CondElif
        <5>3. CASE cs # <<>>
          <6>1. EvalCond(macros, Here.cond) \in BOOLEAN
            BY DEF EvalCond
          <6>2. (~Last(cs).matched /\ Last(cs).parent /\ EvalCond(macros, Here.cond)) \in BOOLEAN
            BY <6>1
          <6> QED BY <5>1, <5>3, <6>2, Zenon DEF CondElif
        <5> QED BY <5>2, <5>3
      <4>2. CASE Else
        <5>1. ~dropped /\ cs' = CondElse(cs)
          BY <4>2 DEF Else
        <5>2. CASE cs = <<>>
          BY <5>1, <5>2 DEF CondElse
        <5>3. CASE cs # <<>>
          <6>2. (Last(cs).parent /\ ~Last(cs).matched) \in BOOLEAN
            OBVIOUS
          <6> QED BY <5>1, <5>3, <6>2, Zenon DEF CondElse
        <5> QED BY <5>2, <5>3
      <4> QED BY <1>3, <2>2, <4>1, <4>2 DEF BranchDirective, At
    <3>3. Len(cs') = Len(cs) /\ \A j \in 1 .. Len(cs) : j < Len(cs) => cs'[j] = cs[j]
      BY <1>1, <3>2, SetTopFacts
    <3> QED BY <3>1, <3>2, <3>3, <1>1 DEF StackMoves, Opening
  <2> QED BY <2>1, <2>2
<1>4. CASE ~IfDirective /\ ~BranchDirective
  <2>1. cs' = cs /\ dropped' = dropped
    <3>1. UNCHANGED condVars
      BY <1>4, Zenon DEF ReadsOn, IncludeTooDeep, IncludeFails,
         IncludeSkipped, Define, Undef, Message, PassThrough, TextLine
    <3> QED BY <3>1 DEF condVars
  <2>2. op \in {"include", "malformed", "define", "undef", "error", "warning", "unknown",
               "pragma", "line", "text"}
    BY <1>4 DEF ReadsOn, IncludeTooDeep, IncludeFails,
       IncludeSkipped, Define, Undef, Message, PassThrough, TextLine, At
  <2>3. op \notin Opening /\ op # "endif"
    BY <2>2 DEF Opening
  <2> QED BY <1>1, <2>1, <2>3 DEF StackMoves
<1> QED BY <1>2, <1>3, <1>4

(* A line that is read moves the innermost activation on by one line.      *)
OneOn(c) ==
  /\ c \in Call /\ c.path = Cur.path /\ c.base = Cur.base /\ c.line = Cur.line + 1
  /\ calls' = [calls EXCEPT ![Len(calls)] = c]

LEMMA NextOf ==
  ASSUME NEW c \in Call
  PROVE  /\ [c EXCEPT !.line = @ + 1].base = c.base /\ [c EXCEPT !.line = @ + 1].line = c.line + 1
         /\ Resumed(c).base = c.base /\ Resumed(c).line = c.line + 1
BY DEF Resumed, Call

LEMMA ReadsOnMoves ==
  ASSUME CallInv, ReadsOn
  PROVE  status = "running" /\ status' = "running" /\ files' = files /\ ~AtEnd /\ \E c : OneOn(c)
<1>1. /\ status = "running" /\ status' = "running" /\ files' = files /\ ~AtEnd
      /\ NextLine \/ calls' = [calls EXCEPT ![Len(calls)] = Resumed(@)]
  BY Zenon DEF ReadsOn, IncludeTooDeep, IncludeFails, IncludeSkipped, Define, Undef,
     IfDirective, BranchDirective, Message, PassThrough, TextLine, Blank, At
<1>2. /\ calls \in Seq(Call) /\ calls # <<>> /\ Len(calls) \in Nat \ {0}
      /\ Cur = calls[Len(calls)] /\ Cur \in Call
  BY <1>1, Running
<1>3. CASE NextLine
  <2> DEFINE c == [Cur EXCEPT !.line = @ + 1]
  <2>1. calls' = [calls EXCEPT ![Len(calls)] = c]
    BY <1>2, <1>3 DEF NextLine
  <2>2. c \in Call /\ c.path = Cur.path /\ c.base = Cur.base /\ c.line = Cur.line + 1
    BY <1>2, CallMoves, NextOf
  <2> QED BY <1>1, <2>1, <2>2 DEF OneOn
<1>4. CASE calls' = [calls EXCEPT ![Len(calls)] = Resumed(@)]
  <2>1. calls' = [calls EXCEPT ![Len(calls)] = Resumed(Cur)]
    BY <1>2, <1>4 DEF Resumed
  <2>2. Resumed(Cur) \in Call /\ Resumed(Cur).path = Cur.path /\ Resumed(Cur).base = Cur.base
        /\ Resumed(Cur).line = Cur.line + 1
    BY <1>2, CallMoves, NextOf
  <2> QED BY <1>1, <2>1, <2>2 DEF OneOn
<1> QED BY <1>1, <1>3, <1>4

-----------------------------------------------------------------------------
(* The inductive invariant of IncludeKeepsConditionals: on the stack of    *)
(* every activation stand the conditionals it was entered with, and over   *)
(* them those of its own that are open before its next line.               *)
Above(i) == IF i < Len(calls) THEN calls[i + 1].base ELSE cs

Level(i) ==
  LET f == files[calls[i].path]
  IN  /\ calls[i].line <= Len(f) + 1
      /\ Under(calls[i].base, Above(i))
      /\ Len(Above(i)) = Len(calls[i].base) + OpenIn(f, calls[i].line - 1)

NestInv == AllWellNested /\ ~dropped => \A i \in 1 .. Len(calls) : Level(i)

(* A file of a well nested file system, seen from the line to be read.     *)
LEMMA LineNested ==
  ASSUME CallInv, AllWellNested, status = "running", ~AtEnd
  PROVE  LET f == files[Cur.path]
         IN  /\ Cur.line \in DOMAIN f /\ Here = f[Cur.line]
             /\ OpenIn(f, Cur.line - 1) \in Int
             /\ Here.op \in Opening => OpenIn(f, Cur.line) = OpenIn(f, Cur.line - 1) + 1
             /\ Here.op = "endif" => OpenIn(f, Cur.line) = OpenIn(f, Cur.line - 1) - 1
             /\ Here.op \notin Opening \cup {"endif"} => OpenIn(f, Cur.line) = OpenIn(f, Cur.line - 1)
             /\ OpenIn(f, Cur.line) >= 0
             /\ Here.op \in {"elif", "else"} => OpenIn(f, Cur.line) > 0
<1> DEFINE f == files[Cur.path]
<1>1. Cur \in Call /\ Cur.path \in DOMAIN files /\ Len(f) \in Nat
  BY Running
<1>2. Cur.line \in Nat \ {0} /\ Cur.line <= Len(f)
  BY <1>1 DEF AtEnd, Call
<1>3. DOMAIN f = 1 .. Len(f)
  BY <1>1, PreprocAssumption DEF CallInv, FileSystem
<1>4. WellNested(f)
  BY <1>1 DEF AllWellNested
<1>5. Cur.line \in DOMAIN f
  BY <1>1, <1>2, <1>3
<1>6. OpenIn(f, Cur.line) >= 0 /\ (f[Cur.line].op \in {"elif", "else"} => OpenIn(f, Cur.line) > 0)
  BY <1>4, <1>5 DEF WellNested
<1> QED BY <1>2, <1>5, <1>6, OpenInStep DEF Here

LEMMA NestReading ==
  ASSUME CallInv, CondTypeOK, AllWellNested, \A i \in 1 .. Len(calls) : Level(i),
         ReadsOn, ~dropped',
         NEW i \in 1 .. Len(calls')
  PROVE  Level(i)'
<1>1. status = "running" /\ files' = files /\ ~AtEnd
  BY ReadsOnMoves
<1>2. PICK c : OneOn(c)
  BY ReadsOnMoves
<1> DEFINE n == Len(calls)
           f == files[Cur.path]
           k == Cur.line
<1>3. /\ calls \in Seq(Call) /\ n \in Nat \ {0} /\ Cur = calls[n] /\ Cur \in Call
  BY <1>1, Running
<1>4. /\ Len(calls') = n /\ calls'[n] = c
      /\ \A j \in 1 .. n : j # n => calls'[j] = calls[j]
  <2>1. c \in Call /\ calls' = [calls EXCEPT ![n] = c]
    BY <1>2 DEF OneOn
  <2>2. n \in 1 .. Len(calls)
    BY <1>3
  <2> QED BY <1>3, <2>1, <2>2, Replaced
<1>5. c \in Call /\ c.path = Cur.path /\ c.base = Cur.base /\ c.line = k + 1 /\ k \in Nat \ {0}
  BY <1>2, <1>3 DEF OneOn, Call
<1>6. StackMoves(Here.op)
  BY StackStep
<1>7. CASE i # n
  <2>1. i \in 1 .. n /\ i < n /\ i + 1 \in 1 .. n /\ Level(i)
    BY <1>3, <1>4, <1>7
  <2>2. calls'[i] = calls[i] /\ calls'[i + 1].base = calls[i + 1].base
    <3>1. calls'[i] = calls[i]
      BY <1>4, <1>7, <2>1
    <3>2. CASE i + 1 = n
      BY <1>3, <1>4, <1>5, <3>2
    <3>3. CASE i + 1 # n
      BY <1>4, <2>1, <3>3
    <3> QED BY <3>1, <3>2, <3>3
  <2>3. Above(i)' = Above(i)
    BY <2>1, <2>2, <1>4 DEF Above
  <2> QED BY <1>1, <2>1, <2>2, <2>3 DEF Level
<1>8. CASE i = n
  <2>1. /\ k \in DOMAIN f
        /\ OpenIn(f, k - 1) \in Int
        /\ Here.op \in Opening => OpenIn(f, k) = OpenIn(f, k - 1) + 1
        /\ Here.op = "endif" => OpenIn(f, k) = OpenIn(f, k - 1) - 1
        /\ Here.op \notin Opening \cup {"endif"} => OpenIn(f, k) = OpenIn(f, k - 1)
        /\ OpenIn(f, k) >= 0
        /\ Here.op \in {"elif", "else"} => OpenIn(f, k) > 0
    BY <1>1, LineNested
  <2>2. Level(n) /\ Above(n) = cs
    BY <1>3, <1>4 DEF Above
  <2>3. Under(Cur.base, cs) /\ Len(cs) = Len(Cur.base) + OpenIn(f, k - 1)
    BY <1>3, <2>2 DEF Level
  <2>4. Len(cs) \in Nat /\ Len(Cur.base) \in Nat
    <3>1. Cur.base \in Seq(Frame)
      BY <1>3 DEF Call
    <3> QED BY <3>1 DEF CondTypeOK
  <2> DEFINE b == Cur.base
             op == Here.op
             o == OpenIn(f, k)
             p == OpenIn(f, k - 1)
  <2>5. op = "endif" => op \notin Opening
    BY DEF Opening
  <2>6. op \in {"elif", "else"} => op \notin Opening \cup {"endif"}
    BY DEF Opening
  <2>7. Len(cs') = Len(b) + o
    <3>1. Len(cs') = Len(cs) + (IF op \in Opening THEN 1
                                ELSE IF op = "endif" /\ Len(cs) > 0 THEN -1 ELSE 0)
      BY <1>6 DEF StackMoves
    <3> HIDE DEF b, op, o, p, f, k
    <3>2. op = "endif" => Len(cs) > 0
      BY <2>1, <2>3, <2>4 DEF b, op, o, p, f, k
    <3>3. Len(cs) = Len(b) + p /\ p \in Int
      BY <2>1, <2>3 DEF b, p, f, k
    <3>4. /\ op \in Opening => o = p + 1
          /\ op = "endif" => o = p - 1
          /\ op \notin Opening /\ op # "endif" => o = p
      BY <2>1 DEF op, o, p
    <3>5. Len(cs) \in Nat /\ Len(b) \in Nat
      BY <2>4 DEF b
    <3>6. CASE op \in Opening
      BY ONLY <3>1, <3>3, <3>4, <3>5, <3>6
    <3>7. CASE op = "endif"
      BY ONLY <2>5, <3>1, <3>2, <3>3, <3>4, <3>5, <3>7
    <3>8. CASE op \notin Opening /\ op # "endif"
      BY ONLY <3>1, <3>3, <3>4, <3>5, <3>8
    <3> QED BY <3>6, <3>7, <3>8
  <2>8. \A j \in 1 .. Len(b) : b[j] = cs'[j]
    <3> SUFFICES ASSUME NEW j \in 1 .. Len(b) PROVE b[j] = cs'[j]
      OBVIOUS
    <3>1. b[j] = cs[j] /\ Len(b) <= Len(cs) /\ j \in 1 .. Len(cs)
      BY <2>3, <2>4 DEF Under
    <3>2. CASE j < Len(cs)
      BY <1>6, <3>1, <3>2 DEF StackMoves
    <3>3. CASE j = Len(cs)
      <4>1. p = 0
        BY <2>1, <2>3, <2>4, <3>1, <3>3
      <4>2. op \notin {"elif", "else", "endif"}
        <5>1. op # "endif"
          BY <2>1, <4>1
        <5>2. op \notin {"elif", "else"}
          BY <2>1, <2>6, <4>1
        <5> QED BY <5>1, <5>2
      <4> QED BY <1>6, <2>4, <3>1, <3>3, <4>2 DEF StackMoves
    <3> QED BY <2>4, <3>1, <3>2, <3>3
  <2>9. Under(b, cs')
    BY <2>1, <2>4, <2>7, <2>8 DEF Under
  <2>10. Len(f) \in Nat /\ k <= Len(f) /\ DOMAIN f = 1 .. Len(f)
    <3>1. Cur.path \in DOMAIN files /\ Len(f) \in Nat
      BY <1>1, Running
    <3>2. DOMAIN f = 1 .. Len(f)
      BY <3>1, PreprocAssumption DEF CallInv, FileSystem
    <3> QED BY <2>1, <3>1, <3>2
  <2>11. /\ calls'[i].path = Cur.path /\ calls'[i].base = b /\ calls'[i].line = k + 1
         /\ calls'[i].line - 1 = k
    BY <1>4, <1>5, <1>8
  <2>12. files'[calls'[i].path] = f
    BY <1>1, <2>11
  <2> HIDE DEF b, o, f, k
  <2>13. calls'[i].line <= Len(f) + 1
    BY <2>10, <2>11, <1>5
  <2>14. Above(i)' = cs'
    BY <1>3, <1>4, <1>8 DEF Above
  <2> QED BY <2>7, <2>9, <2>11, <2>12, <2>13, <2>14 DEF Level, o
<1> QED BY <1>7, <1>8

(* What an #include does to the chain.                                     *)
LEMMA EnterFacts ==
  ASSUME CallInv, CondTypeOK, Include
  PROVE  LET n == Len(calls)
         IN  /\ n \in Nat \ {0} /\ status = "running" /\ ~AtEnd /\ CondActive(cs)
             /\ files' = files /\ macros' = macros /\ cs' = cs /\ dropped' = dropped
             /\ Len(calls') = n + 1
             /\ \A j \in 1 .. n : calls'[j] = calls[j]
             /\ calls'[n + 1].path \in DOMAIN files /\ Len(files[calls'[n + 1].path]) \in Nat
             /\ calls'[n + 1].line = 1 /\ calls'[n + 1].base = cs
<1> DEFINE n == Len(calls)
           path == Resolve(Cur.path[1], Here)
           e == Enter(path, cs)
<1>1. /\ status = "running" /\ ~AtEnd /\ CondActive(cs) /\ files' = files /\ macros' = macros
      /\ cs' = cs /\ dropped' = dropped
      /\ calls' = Append(calls, e) /\ Hits(Cur.path[1], Here) # {}
  BY DEF Include, At, condVars
<1>2. calls \in Seq(Call) /\ n \in Nat \ {0} /\ Cur.path[1] \in STRING
  BY <1>1, Running
<1>3. path \in DOMAIN files
  BY <1>1, <1>2, ResolvedExists
<1>4. path \in Path /\ Len(files[path]) \in Nat
  BY <1>1, <1>3, Running, PreprocAssumption DEF CallInv, FileSystem
<1>5. e \in Call /\ e.path = path /\ e.line = 1 /\ e.base = cs
  BY <1>4 DEF Enter, Call, CondTypeOK
<1> HIDE DEF path, e
<1>6. Len(calls') = n + 1 /\ calls'[n + 1] = e /\ \A j \in 1 .. n : calls'[j] = calls[j]
  BY <1>1, <1>2, <1>5
<1> QED BY <1>1, <1>2, <1>3, <1>4, <1>5, <1>6

LEMMA NestEnters ==
  ASSUME CallInv, CondTypeOK, \A i \in 1 .. Len(calls) : Level(i), Include,
         NEW i \in 1 .. Len(calls')
  PROVE  Level(i)'
<1> DEFINE n == Len(calls)
           path == calls'[n + 1].path
<1>1. /\ n \in Nat \ {0} /\ files' = files /\ cs' = cs
      /\ Len(calls') = n + 1
      /\ \A j \in 1 .. n : calls'[j] = calls[j]
      /\ Len(files[path]) \in Nat
      /\ calls'[n + 1].line = 1 /\ calls'[n + 1].base = cs
  BY EnterFacts
<1>2. Len(cs) \in Nat
  BY DEF CondTypeOK
<1>8. CASE i = n + 1
  <2>1. Above(i)' = cs
    BY <1>1, <1>8 DEF Above
  <2>2. calls'[i].path = path /\ calls'[i].line = 1 /\ calls'[i].base = cs
    BY <1>1, <1>8
  <2>3. Under(cs, cs)
    BY <1>2 DEF Under
  <2>4. OpenIn(files[path], 1 - 1) = 0
    BY OpenInNone
  <2> QED BY <1>1, <1>2, <2>1, <2>2, <2>3, <2>4 DEF Level
<1>9. CASE i \in 1 .. n
  <2>1. calls'[i] = calls[i] /\ Level(i)
    BY <1>1, <1>9
  <2>2. Above(i)' = Above(i)
    <3>1. CASE i = n
      <4>1. Above(i) = cs /\ Above(i)' = calls'[n + 1].base
        BY <1>1, <3>1 DEF Above
      <4> QED BY <1>1, <4>1
    <3>2. CASE i # n
      <4>1. i < n /\ i + 1 \in 1 .. n
        BY <1>1, <1>9, <3>2
      <4> QED BY <1>1, <4>1 DEF Above
    <3> QED BY <3>1, <3>2
  <2> QED BY <1>1, <2>1, <2>2 DEF Level
<1> QED BY <1>1, <1>8, <1>9

(* At the end of a file the stack is what it was at its beginning.         *)
LEMMA EndNested ==
  ASSUME CallInv, CondTypeOK, AllWellNested, \A i \in 1 .. Len(calls) : Level(i),
         status = "running", AtEnd
  PROVE  cs = Cur.base
<1> DEFINE f == files[Cur.path]
<1>1. /\ calls \in Seq(Call) /\ Len(calls) \in Nat \ {0}
      /\ Cur = calls[Len(calls)] /\ Cur \in Call
      /\ Cur.path \in DOMAIN files /\ Len(f) \in Nat
  BY Running
<1>2. Level(Len(calls)) /\ Above(Len(calls)) = cs
  BY <1>1 DEF Above
<1>3. Cur.line <= Len(f) + 1 /\ Under(Cur.base, cs)
      /\ Len(cs) = Len(Cur.base) + OpenIn(f, Cur.line - 1)
  BY <1>1, <1>2 DEF Level
<1>4. Cur.line \in Nat /\ Cur.base \in Seq(Frame) /\ cs \in Seq(Frame)
  BY <1>1 DEF Call, CondTypeOK
<1>5. Cur.line - 1 = Len(f)
  BY <1>1, <1>3, <1>4 DEF AtEnd
<1>6. OpenIn(f, Cur.line - 1) = 0
  BY <1>1, <1>5 DEF AllWellNested, WellNested
<1>7. Len(cs) = Len(Cur.base)
  BY <1>3, <1>4, <1>6
<1> QED BY <1>3, <1>4, <1>7, UnderFacts

(* An activation that waits stands at an #include.                         *)
LEMMA WaitsAtInclude ==
  ASSUME CallInv, NEW i \in 1 .. Len(calls) - 1
  PROVE  LET f == files[calls[i].path]
         IN  /\ calls[i].line \in 1 .. Len(f) /\ f[calls[i].line].op = "include"
             /\ OpenIn(f, calls[i].line) = OpenIn(f, calls[i].line - 1)
<1>1. calls \in Seq(Call) /\ Chained(files, calls)
  BY DEF CallInv
<1>2. Includes(files, calls[i], calls[i + 1].path)
  BY <1>1 DEF Chained
<1>3. i \in 1 .. Len(calls) /\ calls[i] \in Call
  BY <1>1
<1>4. calls[i].line \in Nat \ {0} /\ Len(files[calls[i].path]) \in Nat
  <2>1. FileSystem(files)
    BY PreprocAssumption DEF CallInv
  <2>2. calls[i].path \in DOMAIN files
    BY <1>1, <1>3 DEF Chained
  <2> QED BY <1>3, <2>1, <2>2 DEF Call, FileSystem
<1> DEFINE f == files[calls[i].path]
<1>5. f[calls[i].line].op = "include" /\ calls[i].line <= Len(f)
  BY <1>2 DEF Includes
<1>6. f[calls[i].line].op \notin Opening \cup {"endif"}
  BY <1>5 DEF Opening
<1>7. OpenIn(f, calls[i].line) = OpenIn(f, calls[i].line - 1)
  BY <1>4, <1>6, OpenInStep
<1> QED BY <1>4, <1>5, <1>7

(* What is left after a return.                                            *)
LEMMA ReturnFacts ==
  ASSUME CallInv, Return
  PROVE  LET n == Len(calls) - 1
         IN  /\ n \in Nat \ {0} /\ calls \in Seq(Call) /\ Cur = calls[n + 1]
             /\ status = "running" /\ AtEnd /\ files' = files /\ UNCHANGED condVars
             /\ Len(calls') = n
             /\ \A j \in 1 .. n : j # n => calls'[j] = calls[j]
             /\ calls'[n].path = calls[n].path /\ calls'[n].base = calls[n].base
             /\ calls'[n].line = calls[n].line + 1
<1> DEFINE n == Len(calls) - 1
           t == Front(calls)
<1>1. status = "running" /\ files' = files /\ UNCHANGED condVars /\ Len(calls) > 1 /\ AtEnd
      /\ calls' = [t EXCEPT ![n] = Resumed(@)]
  BY DEF Return
<1>2. calls \in Seq(Call) /\ calls # <<>> /\ Len(calls) \in Nat \ {0} /\ Cur = calls[Len(calls)]
  BY <1>1, Running
<1>3. t \in Seq(Call) /\ Len(t) = n /\ \A j \in 1 .. n : t[j] = calls[j]
  BY <1>2, FrontFacts
<1>4. n \in Nat \ {0} /\ n \in 1 .. Len(t) /\ Len(calls) = n + 1
  BY <1>1, <1>2, <1>3
<1>5. t[n] = calls[n] /\ calls[n] \in Call
  BY <1>2, <1>3, <1>4
<1>6. calls' = [t EXCEPT ![n] = Resumed(calls[n])]
  BY <1>1, <1>3, <1>5 DEF Resumed
<1>7. Resumed(calls[n]) \in Call
  BY <1>5, CallMoves
<1> HIDE DEF n, t
<1>8. Len(calls') = n /\ calls'[n] = Resumed(calls[n])
      /\ \A j \in 1 .. n : j # n => calls'[j] = t[j]
  BY <1>3, <1>4, <1>6, <1>7, Replaced
<1>9. \A j \in 1 .. n : j # n => calls'[j] = calls[j]
  BY <1>3, <1>8
<1>10. Resumed(calls[n]).path = calls[n].path /\ Resumed(calls[n]).base = calls[n].base
       /\ Resumed(calls[n]).line = calls[n].line + 1
  BY DEF Resumed
<1> QED BY <1>1, <1>2, <1>4, <1>8, <1>9, <1>10 DEF n

LEMMA NestReturns ==
  ASSUME CallInv, CondTypeOK, AllWellNested, \A i \in 1 .. Len(calls) : Level(i), Return,
         NEW i \in 1 .. Len(calls')
  PROVE  Level(i)'
<1> DEFINE n == Len(calls) - 1
<1>1. /\ n \in Nat \ {0} /\ Len(calls) = n + 1 /\ calls \in Seq(Call) /\ Cur = calls[n + 1]
      /\ status = "running" /\ AtEnd /\ files' = files /\ cs' = cs
      /\ Len(calls') = n
      /\ \A j \in 1 .. n : j # n => calls'[j] = calls[j]
      /\ calls'[n].path = calls[n].path /\ calls'[n].base = calls[n].base
      /\ calls'[n].line = calls[n].line + 1
  BY ReturnFacts DEF condVars, CallInv
<1>2. cs = Cur.base
  BY <1>1, EndNested
<1> HIDE DEF n
<1>3. Level(i) /\ i \in 1 .. n
  BY <1>1
<1>4. calls'[i].path = calls[i].path /\ calls'[i].base = calls[i].base
  BY <1>1, <1>3
<1>5. Above(i)' = Above(i)
  <2>1. CASE i = n
    <3>1. Above(i)' = cs' /\ Above(i) = calls[n + 1].base
      BY <1>1, <2>1 DEF Above
    <3> QED BY <1>1, <1>2, <3>1
  <2>2. CASE i # n
    <3>1. i < n /\ i + 1 \in 1 .. n
      BY <1>1, <1>3, <2>2
    <3>2. calls'[i + 1].base = calls[i + 1].base
      BY <1>1, <3>1
    <3> QED BY <1>1, <3>1, <3>2 DEF Above
  <2> QED BY <2>1, <2>2
<1>6. CASE i = n
  <2> DEFINE f == files[calls[i].path]
             k == calls[i].line
  <2>1. i \in 1 .. Len(calls) - 1
    BY <1>1, <1>3
  <2>2. k \in 1 .. Len(f) /\ OpenIn(f, k) = OpenIn(f, k - 1)
    BY <2>1, WaitsAtInclude
  <2>3. calls'[i].line = k + 1 /\ k + 1 - 1 = k /\ Len(f) \in Nat
    <3>1. i \in 1 .. Len(calls)
      BY <1>1, <1>3
    <3>2. calls[i].path \in DOMAIN files
      BY <3>1 DEF CallInv, Chained
    <3>3. Len(f) \in Nat
      BY <1>1, <3>2, Running
    <3> QED BY <1>1, <1>6, <2>2, <3>3
  <2>4. Len(Above(i)) = Len(calls[i].base) + OpenIn(f, k - 1) /\ Under(calls[i].base, Above(i))
    BY <1>3 DEF Level
  <2>5. files'[calls'[i].path] = f
    BY <1>1, <1>4
  <2> HIDE DEF f, k
  <2>6. k + 1 <= Len(f) + 1
    BY <2>2, <2>3
  <2> QED BY <1>4, <1>5, <2>2, <2>3, <2>4, <2>5, <2>6 DEF Level
<1>7. CASE i # n
  BY <1>1, <1>3, <1>5, <1>7 DEF Level
<1> QED BY <1>6, <1>7

LEMMA NestInvStep == CondInv /\ StartInv /\ CallInv /\ NestInv /\ [Next]_vars => NestInv'
<1> SUFFICES ASSUME CondInv, StartInv, CallInv, NestInv, [Next]_vars, AllWellNested', ~dropped',
                    NEW i \in 1 .. Len(calls')
             PROVE  Level(i)'
  BY DEF NestInv
<1>1. CondTypeOK
  BY DEF CondInv
<1>2. CASE ReadsOn
  <2>1. files' = files /\ ~dropped
    BY <1>1, <1>2, ReadsOnMoves, StackStep
  <2>2. AllWellNested /\ \A j \in 1 .. Len(calls) : Level(j)
    BY <2>1 DEF AllWellNested, NestInv
  <2> QED BY <1>1, <1>2, <2>2, NestReading
<1>3. CASE Include
  <2>1. files' = files /\ dropped' = dropped
    BY <1>3 DEF Include, condVars
  <2>2. \A j \in 1 .. Len(calls) : Level(j)
    BY <2>1 DEF AllWellNested, NestInv
  <2> QED BY <1>1, <1>3, <2>2, NestEnters
<1>4. CASE Return
  <2>1. files' = files /\ dropped' = dropped
    BY <1>4 DEF Return, condVars
  <2>2. AllWellNested /\ \A j \in 1 .. Len(calls) : Level(j)
    BY <2>1 DEF AllWellNested, NestInv
  <2> QED BY <1>1, <1>4, <2>2, NestReturns
<1>5. CASE Open
  <2>1. /\ calls' = <<Enter(Main, <<>>)>> /\ files' = files /\ UNCHANGED <<cs, chains, dropped>>
        /\ Main \in DOMAIN files /\ status = "start"
    BY <1>5 DEF Open, condVars
  <2>2. chains = <<>> /\ Len(cs) = Len(chains) /\ cs \in Seq(Frame)
    BY <1>1, <2>1 DEF StartInv, CondInv, CondTypeOK
  <2>3. cs = <<>> /\ Len(cs) = 0
    BY <2>2, EmptySeq
  <2>4. Enter(Main, <<>>).path = Main /\ Enter(Main, <<>>).line = 1 /\ Enter(Main, <<>>).base = <<>>
    BY DEF Enter
  <2>5. Len(calls') = 1 /\ calls'[1] = Enter(Main, <<>>)
    BY <2>1
  <2>6. i = 1 /\ Above(i)' = cs'
    BY <2>5 DEF Above
  <2>7. Under(<<>>, <<>>) /\ Len(<<>>) = 0
    BY DEF Under
  <2>8. OpenIn(files[Main], 1 - 1) = 0
    BY OpenInNone
  <2>9. Len(files[Main]) \in Nat
    BY <2>1, PreprocAssumption DEF CallInv, FileSystem
  <2> QED BY <2>1, <2>3, <2>4, <2>5, <2>6, <2>7, <2>8, <2>9 DEF Level
<1>6. CASE Finish
  <2>1. calls' = <<>>
    BY <1>6 DEF Finish
  <2> QED BY <2>1
<1>7. CASE OpenFails \/ UNCHANGED vars
  <2>1. calls' = calls /\ files' = files /\ UNCHANGED <<cs, dropped>>
    BY <1>7 DEF OpenFails, vars, condVars, ppVars
  <2>2. Level(i) /\ Above(i)' = Above(i)
    BY <2>1 DEF AllWellNested, NestInv, Above
  <2> QED BY <2>1, <2>2 DEF Level
<1> QED BY <1>2, <1>3, <1>4, <1>5, <1>6, <1>7, Zenon DEF Next, ReadsOn

LEMMA NestInvAlways == Spec => []NestInv
<1>1. Init => NestInv /\ StartInv
  BY DEF Init, PpInit, CondInit, NestInv, StartInv
<1>2. QED
  BY <1>1, CondInvAlways, CallInvAlways, StartInvStep, NestInvStep, PTL DEF Spec

(* When every file closes what it opens, a file leaves the conditionals of *)
(* its includer as it found them, for every file system and wherever in    *)
(* the branches the #include stands.                                       *)
THEOREM IncludeKeepsConditionalsHolds == Spec => []IncludeKeepsConditionals
<1>1. CondInv /\ CallInv /\ NestInv => IncludeKeepsConditionals
  <2> SUFFICES ASSUME CondInv, CallInv, NestInv, AllWellNested, ~dropped, calls # <<>>
               PROVE  IsPrefix(Cur.base, cs) /\ (AtEnd => cs = Cur.base)
    BY DEF IncludeKeepsConditionals
  <2>1. status = "running" /\ CondTypeOK /\ \A i \in 1 .. Len(calls) : Level(i)
    BY DEF CallInv, CondInv, NestInv
  <2>2. /\ Len(calls) \in Nat \ {0} /\ Cur = calls[Len(calls)] /\ Cur \in Call
    BY <2>1, Running
  <2>3. Under(Cur.base, cs)
    <3>1. Level(Len(calls)) /\ Above(Len(calls)) = cs
      BY <2>1, <2>2 DEF Above
    <3> QED BY <2>2, <3>1 DEF Level
  <2>4. Cur.base \in Seq(Frame) /\ cs \in Seq(Frame)
    BY <2>1, <2>2 DEF Call, CondTypeOK
  <2> QED BY <2>1, <2>3, <2>4, UnderFacts, EndNested
<1>2. QED
  BY <1>1, CondInvAlways, CallInvAlways, NestInvAlways, PTL

-----------------------------------------------------------------------------
-----------------------------------------------------------------------------
(* Include guards.  p is a guarded file, g the name of its guard.          *)
IsGuarded(p, g) ==
  AllWellNested /\ p \in DOMAIN files /\ Guarded(files[p], g) /\ NeverRemoved(g)

FromFile(p, m) == m \in DOMAIN out /\ out[m].k = "text" /\ out[m].path = p /\ out[m].toks # <<>>

(* An activation is inside the guard, in the branch that is read.          *)
Inside(p, i) ==
  /\ calls[i].path = p
  /\ calls[i].line \in 2 .. Len(files[p])
  /\ Above(i)[Len(calls[i].base) + 1].active

(* One activation at most is ever inside: as long as the guard is not      *)
(* defined none has come further than to its definition, and as soon as it *)
(* is no other one gets in.  And that one reads each line once.            *)
GuardInv(p, g) ==
  IsGuarded(p, g) /\ ~dropped =>
    /\ g \notin DOMAIN macros =>
         /\ \A m : ~FromFile(p, m)
         /\ \A i \in 1 .. Len(calls) :
              calls[i].path = p => calls[i].line <= 2 /\ (calls[i].line = 2 => Inside(p, i))
    /\ \A i, j \in 1 .. Len(calls) : Inside(p, i) /\ Inside(p, j) => i = j
    /\ \A m : FromFile(p, m) => out[m].line \in Nat
    /\ \A i \in 1 .. Len(calls) : Inside(p, i) =>
         \A m : FromFile(p, m) => out[m].line < calls[i].line
    /\ \A m, l : FromFile(p, m) /\ FromFile(p, l) /\ out[m].line = out[l].line => m = l

(* A file is entered from a line that is read.                             *)
BasesActive == \A i \in 1 .. Len(calls) : CondActive(calls[i].base)

LEMMA BasesStep == CallInv /\ CondTypeOK /\ BasesActive /\ [Next]_vars => BasesActive'
<1> SUFFICES ASSUME CallInv, CondTypeOK, BasesActive, [Next]_vars, NEW i \in 1 .. Len(calls')
             PROVE  CondActive(calls'[i].base)
  BY DEF BasesActive
<1>1. CASE ReadsOn
  <2>1. PICK c : OneOn(c)
    BY <1>1, ReadsOnMoves
  <2>2. /\ calls \in Seq(Call) /\ Len(calls) \in Nat \ {0} /\ Cur = calls[Len(calls)]
    BY <1>1, ReadsOnMoves, Running
  <2>3. c \in Call /\ c.base = Cur.base /\ calls' = [calls EXCEPT ![Len(calls)] = c]
        /\ Len(calls) \in 1 .. Len(calls)
    BY <2>1, <2>2 DEF OneOn
  <2>4. Len(calls') = Len(calls) /\ calls'[Len(calls)] = c
        /\ \A j \in 1 .. Len(calls) : j # Len(calls) => calls'[j] = calls[j]
    BY <2>2, <2>3, Replaced
  <2>5. calls'[i].base = calls[i].base /\ i \in 1 .. Len(calls)
    BY <2>2, <2>3, <2>4
  <2> QED BY <2>5 DEF BasesActive
<1>2. CASE Include
  <2>1. /\ Len(calls) \in Nat /\ CondActive(cs) /\ Len(calls') = Len(calls) + 1
        /\ \A j \in 1 .. Len(calls) : calls'[j] = calls[j]
        /\ calls'[Len(calls) + 1].base = cs
    BY <1>2, EnterFacts
  <2> QED BY <2>1 DEF BasesActive
<1>3. CASE Return
  <2> DEFINE n == Len(calls) - 1
  <2>1. /\ n \in Nat \ {0} /\ Len(calls) = n + 1 /\ Len(calls') = n
        /\ \A j \in 1 .. n : j # n => calls'[j] = calls[j]
        /\ calls'[n].base = calls[n].base
    BY <1>3, ReturnFacts
  <2> HIDE DEF n
  <2>2. i \in 1 .. n
    BY <2>1
  <2>3. calls'[i].base = calls[i].base
    <3>1. CASE i = n
      BY <2>1, <3>1
    <3>2. CASE i # n
      BY <2>1, <2>2, <3>2
    <3> QED BY <3>1, <3>2
  <2>4. i \in 1 .. Len(calls)
    BY <2>1, <2>2
  <2> QED BY <2>3, <2>4 DEF BasesActive
<1>4. CASE Open
  <2>1. calls' = <<Enter(Main, <<>>)>> /\ Enter(Main, <<>>).base = <<>>
    BY <1>4 DEF Open, Enter
  <2>2. calls'[i].base = <<>>
    BY <2>1
  <2> QED BY <2>2 DEF CondActive
<1>5. CASE Finish
  <2>1. calls' = <<>>
    BY <1>5 DEF Finish
  <2> QED BY <2>1
<1>6. CASE OpenFails \/ UNCHANGED vars
  <2>1. calls' = calls
    BY <1>6 DEF OpenFails, vars, ppVars
  <2> QED BY <2>1 DEF BasesActive
<1> QED BY <1>1, <1>2, <1>3, <1>4, <1>5, <1>6, Zenon DEF Next, ReadsOn

(* The text of a guarded file, line by line.                               *)
LEMMA GuardedLines ==
  ASSUME CallInv, NEW p, NEW g, IsGuarded(p, g)
  PROVE  LET f == files[p]
         IN  /\ Len(f) \in Nat /\ Len(f) >= 3
             /\ f[1].op = "ifndef" /\ f[1].name = g
             /\ f[2].op = "define" /\ f[2].name = g
             /\ f[Len(f)].op = "endif"
             /\ OpenIn(f, 1) = 1
             /\ \A k \in 1 .. Len(f) - 1 : /\ OpenIn(f, k) \in Nat \ {0}
                                           /\ f[k].op \in {"elif", "else"} => OpenIn(f, k) > 1
<1> DEFINE f == files[p]
<1>1. Len(f) \in Nat
  BY PreprocAssumption DEF CallInv, FileSystem, IsGuarded
<1>2. /\ Len(f) >= 3
      /\ f[1].op = "ifndef" /\ f[1].name = g
      /\ f[2].op = "define" /\ f[2].name = g
      /\ f[Len(f)].op = "endif"
      /\ \A k \in 1 .. Len(f) - 1 : OpenIn(f, k) > 0 /\ (f[k].op \in {"elif", "else"} => OpenIn(f, k) > 1)
  BY DEF IsGuarded, Guarded
<1>3. OpenIn(f, 1) = 1
  <2>1. OpenIn(f, 1) = OpenIn(f, 1 - 1) + 1
    BY <1>2, OpenInStep DEF Opening
  <2> QED BY <2>1, OpenInNone
<1>4. \A k \in 1 .. Len(f) - 1 : OpenIn(f, k) \in Int
  <2> SUFFICES ASSUME NEW k \in 1 .. Len(f) - 1 PROVE OpenIn(f, k) \in Int
    OBVIOUS
  <2>1. k + 1 \in Nat \ {0} /\ k + 1 - 1 = k
    BY <1>1
  <2>2. OpenIn(f, (k + 1) - 1) \in Int
    BY <2>1, OpenInStep
  <2> HIDE DEF f
  <2> QED BY <2>1, <2>2
<1> HIDE DEF f
<1>5. \A k \in 1 .. Len(f) - 1 : OpenIn(f, k) \in Nat \ {0}
  BY <1>2, <1>4
<1> QED BY <1>1, <1>2, <1>3, <1>5 DEF f

(* What a step adds to the output, and that it adds only.                  *)
LEMMA OutGrows ==
  ASSUME OutIsSeq, [Next]_vars
  PROVE  /\ Len(out) \in Nat /\ Len(out') \in Nat /\ Len(out) <= Len(out')
         /\ DOMAIN out = 1 .. Len(out) /\ DOMAIN out' = 1 .. Len(out')
         /\ \A i \in 1 .. Len(out) : out'[i] = out[i]
<1>1. out \in Seq(Elements(out)) /\ out' \in Seq(Elements(out'))
  BY OutIsSeqStep DEF OutIsSeq, Elements
<1>2. out' = out \/ \E T : \E t \in Seq(T) : out' = out \o t
  <2>1. ASSUME NEW x, Put(<<x>>) PROVE \E T : \E t \in Seq(T) : out' = out \o t
    <3>1. <<x>> \in Seq({x})
      OBVIOUS
    <3> QED BY <2>1, <3>1 DEF Put
  <2>2. ASSUME NEW x, NEW y, Put(<<x, y>>) PROVE \E T : \E t \in Seq(T) : out' = out \o t
    <3>1. <<x, y>> \in Seq({x, y})
      OBVIOUS
    <3> QED BY <2>2, <3>1 DEF Put
  <2> QED BY <2>1, <2>2, PutsFew
<1>3. CASE out' = out
  BY <1>1, <1>3
<1>4. ASSUME NEW T, NEW t \in Seq(T), out' = out \o t
      PROVE  Len(out) <= Len(out') /\ \A i \in 1 .. Len(out) : out'[i] = out[i]
  <2> DEFINE S == Elements(out) \cup T
  <2>1. Elements(out) \subseteq S /\ T \subseteq S
    OBVIOUS
  <2> HIDE DEF S
  <2>2. out \in Seq(S) /\ t \in Seq(S)
    BY <1>1, <2>1
  <2> QED BY <1>4, <2>2
<1> QED BY <1>1, <1>2, <1>3, <1>4

(* A line of the script whose text is not blank in the output.             *)
LEMMA TextIsRead ==
  ASSUME OutIsSeq, CallInv, [Next]_vars
  PROVE  \/ NoText
         \/ /\ TextLine /\ CondActive(cs) /\ Len(out') = Len(out) + 1
            /\ out'[Len(out) + 1].path = Cur.path /\ out'[Len(out) + 1].line = Cur.line
<1>1. CASE OpenFails \/ Finish \/ UNCHANGED vars
  <2>1. out' = out
    BY <1>1 DEF OpenFails, Finish, vars, ppVars
  <2> QED BY <2>1, NothingPut
<1>2. CASE Open \/ Include
  <2>1. PICK path : Put(<<Marker(1, path)>>)
    BY <1>2 DEF Open, Include
  <2>2. Marker(1, path).k # "text"
    BY DEF Marker
  <2> QED BY <2>1, <2>2, OnePut
<1>3. CASE IncludeTooDeep \/ Return
  <2>1. \E call : Put(AfterInclude(call))
    BY <1>3, Zenon DEF IncludeTooDeep, Return
  <2> QED BY <2>1, IncludeOverPut
<1>4. CASE IncludeFails \/ IncludeSkipped \/ Define \/ Undef \/ IfDirective
             \/ BranchDirective \/ Message \/ (TextLine /\ ~CondActive(cs))
  <2>1. Put(<<Text(Cur, <<>>)>>)
    BY <1>4, Zenon DEF IncludeFails, IncludeSkipped, Define, Undef, IfDirective,
       BranchDirective, Message, TextLine, Blank
  <2> QED BY <2>1, BlankPut
<1>5. CASE PassThrough
  <2>1. \E x : Put(<<x>>) /\ x.k # "text"
    <3>1. CASE Here.op = "pragma"
      BY <1>5, <3>1 DEF PassThrough
    <3>2. CASE Here.op # "pragma"
      <4>1. UserMarker(Here.num, Here.path).k = "marker"
        BY DEF UserMarker
      <4>2. Put(<<UserMarker(Here.num, Here.path)>>)
        BY <1>5, <3>2 DEF PassThrough
      <4> QED BY <4>1, <4>2
    <3> QED BY <3>1, <3>2
  <2> QED BY <2>1, OnePut
<1>6. CASE TextLine /\ CondActive(cs)
  <2>1. PICK toks : Put(<<Text(Cur, toks)>>)
    BY <1>6, Zenon DEF TextLine
  <2>2. Text(Cur, toks).path = Cur.path /\ Text(Cur, toks).line = Cur.line
    BY DEF Text
  <2> DEFINE x == Text(Cur, toks)
             t == <<x>>
  <2> HIDE DEF x
  <2>3. t \in Seq({x}) /\ Len(t) = 1 /\ t[1] = x
    OBVIOUS
  <2>4. out' = out \o t /\ out \in Seq(Elements(out))
    BY <2>1 DEF Put, OutIsSeq, x
  <2> HIDE DEF t
  <2>5. /\ Len(out') = Len(out) + 1 /\ Len(out) \in Nat
        /\ \A i \in Len(out) + 1 .. Len(out') : out'[i] = t[i - Len(out)]
    BY <2>3, <2>4, SeqGrows
  <2>6. out'[Len(out) + 1] = x
    BY <2>3, <2>5
  <2> QED BY <1>6, <2>2, <2>5, <2>6 DEF x
<1> QED BY <1>1, <1>2, <1>3, <1>4, <1>5, <1>6, Zenon DEF Next

LEMMA ReadsOnFacts ==
  ASSUME CallInv, ReadsOn
  PROVE  LET n == Len(calls)
         IN  /\ n \in Nat \ {0} /\ Cur = calls[n] /\ Cur.line \in Nat \ {0} /\ Cur.base \in Seq(Frame)
             /\ status = "running" /\ ~AtEnd /\ files' = files
             /\ Len(calls') = n
             /\ \A j \in 1 .. n : j # n => calls'[j] = calls[j]
             /\ calls'[n].path = Cur.path /\ calls'[n].base = Cur.base
             /\ calls'[n].line = Cur.line + 1
<1>1. status = "running" /\ files' = files /\ ~AtEnd
  BY ReadsOnMoves
<1>2. PICK c : OneOn(c)
  BY ReadsOnMoves
<1> DEFINE n == Len(calls)
<1>3. calls \in Seq(Call) /\ n \in Nat \ {0} /\ Cur = calls[n] /\ Cur \in Call
  BY <1>1, Running
<1>4. /\ Len(calls') = n /\ calls'[n] = c
      /\ \A j \in 1 .. n : j # n => calls'[j] = calls[j]
  <2>1. c \in Call /\ calls' = [calls EXCEPT ![n] = c]
    BY <1>2 DEF OneOn
  <2>2. n \in 1 .. Len(calls)
    BY <1>3
  <2> QED BY <1>3, <2>1, <2>2, Replaced
<1>5. c.path = Cur.path /\ c.base = Cur.base /\ c.line = Cur.line + 1
  BY <1>2 DEF OneOn
<1>6. Cur.line \in Nat \ {0} /\ Cur.base \in Seq(Frame)
  BY <1>3 DEF Call
<1> QED BY <1>1, <1>3, <1>4, <1>5, <1>6

(* All the invariants so far.                                              *)
LoopInv == CondInv /\ StartInv /\ CallInv /\ NestInv /\ BasesActive /\ OutIsSeq

(* What the stack is at a line of a guarded file, after the first one.     *)
LEMMA GuardFrame ==
  ASSUME LoopInv, NEW p, NEW g, IsGuarded(p, g), ~dropped, status = "running",
         Cur.path = p, Cur.line \in 1 .. Len(files[p])
  PROVE  LET b == Len(Cur.base)
             k == Cur.line
         IN  /\ b \in Nat /\ Under(Cur.base, cs) /\ cs \in Seq(Frame)
             /\ Len(cs) = b + OpenIn(files[p], k - 1)
             /\ k = 1 => Len(cs) = b
             /\ k = 2 => Len(cs) = b + 1
             /\ k > 1 => OpenIn(files[p], k - 1) \in Nat \ {0} /\ Len(cs) >= b + 1
<1> DEFINE f == files[p]
           k == Cur.line
           b == Len(Cur.base)
<1>1. CallInv /\ CondTypeOK /\ \A i \in 1 .. Len(calls) : Level(i)
  BY DEF LoopInv, CondInv, NestInv, IsGuarded
<1>2. Len(calls) \in Nat \ {0} /\ Cur = calls[Len(calls)] /\ Cur \in Call
  BY <1>1, Running
<1>3. Level(Len(calls)) /\ Above(Len(calls)) = cs
  BY <1>1, <1>2 DEF Above
<1>4. Under(Cur.base, cs) /\ Len(cs) = b + OpenIn(f, k - 1)
  BY <1>2, <1>3 DEF Level
<1>5. b \in Nat /\ cs \in Seq(Frame)
  BY <1>1, <1>2 DEF Call, CondTypeOK
<1>6. /\ Len(f) \in Nat /\ OpenIn(f, 1) = 1
      /\ \A j \in 1 .. Len(f) - 1 : OpenIn(f, j) \in Nat \ {0}
  BY <1>1, GuardedLines
<1>7. k \in 1 .. Len(f)
  OBVIOUS
<1>8. ASSUME k = 1 PROVE Len(cs) = b
  <2>1. k - 1 = 0
    BY <1>8
  <2> QED BY <1>4, <1>5, <2>1, OpenInNone
<1>9. ASSUME k > 1 PROVE OpenIn(f, k - 1) \in Nat \ {0} /\ Len(cs) >= b + 1
  <2> HIDE DEF f, k, b
  <2>1. k - 1 \in 1 .. Len(f) - 1
    BY <1>6, <1>7, <1>9
  <2> QED BY <1>4, <1>5, <1>6, <2>1
<1>10. ASSUME k = 2 PROVE Len(cs) = b + 1
  <2>1. k - 1 = 1
    BY <1>10
  <2> QED BY <1>4, <1>6, <2>1
<1> QED BY <1>4, <1>5, <1>8, <1>9, <1>10

LEMMA FirstLine ==
  ASSUME LoopInv, NEW p, NEW g, IsGuarded(p, g), ReadsOn, ~dropped', Cur.path = p, Cur.line = 1
  PROVE  /\ Inside(p, Len(calls))' => g \notin DOMAIN macros
         /\ g \notin DOMAIN macros => Inside(p, Len(calls))'
<1> DEFINE n == Len(calls)
           f == files[p]
           b == Len(Cur.base)
<1>1. CallInv /\ CondTypeOK
  BY DEF LoopInv, CondInv
<1>2. /\ n \in Nat \ {0} /\ Cur = calls[n] /\ Cur.base \in Seq(Frame)
      /\ status = "running" /\ ~AtEnd /\ files' = files /\ Len(calls') = n
      /\ calls'[n].path = p /\ calls'[n].base = Cur.base /\ calls'[n].line = 2
  BY <1>1, ReadsOnFacts
<1>3. Len(f) \in Nat /\ Len(f) >= 3 /\ f[1].op = "ifndef" /\ f[1].name = g
  BY <1>1, GuardedLines
<1>4. ~dropped
  BY <1>1, StackStep
<1>5. b \in Nat /\ Under(Cur.base, cs) /\ cs \in Seq(Frame) /\ Len(cs) = b
  <2>1. Cur.line \in 1 .. Len(f)
    BY <1>3
  <2> QED BY <1>2, <1>4, <2>1, GuardFrame
<1>6. cs = Cur.base
  BY <1>2, <1>5, UnderFacts
<1>7. CondActive(cs)
  BY <1>2, <1>6 DEF LoopInv, BasesActive
<1>8. Here.op = "ifndef" /\ Here.name = g
  BY <1>3 DEF Here
<1>9. If(g \notin DOMAIN macros)
  BY <1>8 DEF ReadsOn, IncludeTooDeep, IncludeFails, IncludeSkipped, Define, Undef, IfDirective,
     BranchDirective, Message, PassThrough, TextLine, At
<1> DEFINE fresh == g \notin DOMAIN macros
           e == [parent |-> CondActive(cs), active |-> CondActive(cs) /\ fresh,
                  matched |-> CondActive(cs) => fresh]
<1>10. cs' = Append(cs, e)
  <2>1. dropped' = (dropped \/ Len(cs) >= MaxFrames) /\ cs' = CondPush(cs, CondActive(cs), fresh)
    BY <1>9 DEF If
  <2>2. ~(Len(cs) >= MaxFrames)
    BY <2>1, Zenon
  <2> QED BY <2>1, <2>2 DEF CondPush
<1>11. e \in Frame /\ (e.active <=> fresh)
  BY <1>7 DEF Frame
<1> HIDE DEF e, fresh
<1>12. cs'[b + 1].active <=> fresh
  BY <1>5, <1>10, <1>11
<1>13. Inside(p, n)' <=> cs'[b + 1].active
  <2>1. Len(f) = Len(files'[p]) /\ 2 \in 2 .. Len(files'[p])
    BY <1>2, <1>3
  <2>2. Above(Len(calls))' = cs'
    BY <1>2 DEF Above
  <2> QED BY <1>2, <2>1, <2>2 DEF Inside
<1> QED BY <1>12, <1>13 DEF fresh

(* An activation gets inside the guard at its first line, or was inside.   *)
AtGuard(p) == ReadsOn /\ Cur.path = p /\ Cur.line = 1

LEMMA InsideReading ==
  ASSUME LoopInv, NEW p, NEW g, IsGuarded(p, g), ReadsOn, ~dropped',
         NEW i \in 1 .. Len(calls), Inside(p, i)', ~(AtGuard(p) /\ i = Len(calls))
  PROVE  Inside(p, i)
<1> DEFINE n == Len(calls)
           f == files[p]
           b == Len(Cur.base)
           k == Cur.line
<1>1. CallInv /\ CondTypeOK
  BY DEF LoopInv, CondInv
<1>2. /\ n \in Nat \ {0} /\ Cur = calls[n] /\ k \in Nat \ {0}
      /\ status = "running" /\ ~AtEnd /\ files' = files /\ Len(calls') = n
      /\ \A j \in 1 .. n : j # n => calls'[j] = calls[j]
      /\ calls'[n].path = Cur.path /\ calls'[n].base = Cur.base /\ calls'[n].line = k + 1
  BY <1>1, ReadsOnFacts
<1>3. /\ Len(f) \in Nat /\ Len(f) >= 3
      /\ \A j \in 1 .. Len(f) - 1 : /\ OpenIn(f, j) \in Nat \ {0}
                                    /\ f[j].op \in {"elif", "else"} => OpenIn(f, j) > 1
  BY <1>1, GuardedLines
<1>4. StackMoves(Here.op) /\ ~dropped
  BY <1>1, StackStep
<1>5. CASE i # n
  <2>1. i < n /\ i + 1 \in 1 .. n /\ calls'[i] = calls[i]
    BY <1>2, <1>5
  <2>2. calls'[i + 1].base = calls[i + 1].base
    <3>1. CASE i + 1 = n
      BY <1>2, <3>1
    <3>2. CASE i + 1 # n
      BY <1>2, <2>1, <3>2
    <3> QED BY <3>1, <3>2
  <2>3. Above(i)' = Above(i)
    BY <1>2, <2>1, <2>2 DEF Above
  <2> QED BY <1>2, <2>1, <2>3 DEF Inside
<1>6. CASE i = n
  <2>1. Above(i) = cs /\ Above(i)' = cs'
    BY <1>2, <1>6 DEF Above
  <2>2. Cur.path = p /\ k + 1 \in 2 .. Len(f) /\ cs'[b + 1].active
    BY <1>2, <1>6, <2>1 DEF Inside
  <2>3. k # 1
    BY <1>6, <2>2 DEF AtGuard
  <2>4. k \in 2 .. Len(f) - 1 /\ k \in 1 .. Len(f) /\ k > 1
    BY <1>2, <1>3, <2>2, <2>3
  <2>5. b \in Nat /\ Len(cs) = b + OpenIn(f, k - 1) /\ OpenIn(f, k - 1) \in Nat \ {0}
    BY <1>2, <1>4, <2>2, <2>4, GuardFrame
  <2>6. cs'[b + 1] = cs[b + 1]
    <3>1. b + 1 \in 1 .. Len(cs)
      BY <2>5
    <3>2. CASE b + 1 < Len(cs)
      BY <1>4, <3>1, <3>2 DEF StackMoves
    <3>3. CASE b + 1 = Len(cs)
      <4>1. OpenIn(f, k - 1) = 1
        BY <2>5, <3>3
      <4>2. OpenIn(f, k) > 0 /\ (Here.op \in {"elif", "else"} => OpenIn(f, k) > 1)
        BY <1>3, <2>2, <2>4 DEF Here
      <4>3. /\ Here.op = "endif" => OpenIn(f, k) = OpenIn(f, k - 1) - 1
            /\ Here.op \notin Opening \cup {"endif"} => OpenIn(f, k) = OpenIn(f, k - 1)
        <5>1. Here = f[k] /\ k \in Nat \ {0}
          BY <1>2, <2>2 DEF Here
        <5> HIDE DEF f, k
        <5> QED BY <5>1, OpenInStep
      <4>4. Here.op \in {"elif", "else"} => OpenIn(f, k) = 1
        BY <4>1, <4>3 DEF Opening
      <4>5. Here.op \notin {"elif", "else", "endif"}
        <5>1. Here.op # "endif"
          BY <4>1, <4>2, <4>3
        <5>2. Here.op \notin {"elif", "else"}
          BY <4>2, <4>4
        <5> QED BY <5>1, <5>2
      <4> QED BY <1>4, <3>1, <3>3, <4>5 DEF StackMoves
    <3> QED BY <2>5, <3>1, <3>2, <3>3
  <2>7. calls[i].path = p /\ calls[i].base = Cur.base /\ calls[i].line = k
    BY <1>2, <1>6, <2>2
  <2>8. k \in 2 .. Len(files[p])
    BY <1>3, <2>4
  <2> QED BY <2>1, <2>2, <2>6, <2>7, <2>8 DEF Inside
<1> QED BY <1>5, <1>6

LEMMA InsideGrows ==
  ASSUME LoopInv, NEW p, NEW g, IsGuarded(p, g), [Next]_vars, ~dropped',
         NEW i \in 1 .. Len(calls'), Inside(p, i)', ~(AtGuard(p) /\ i = Len(calls))
  PROVE  /\ i \in 1 .. Len(calls) /\ Inside(p, i)
         /\ calls[i].line \in Nat /\ calls'[i].line \in Nat /\ calls[i].line <= calls'[i].line
<1>1. CallInv /\ CondTypeOK /\ CallInv'
  BY CallInvStep DEF LoopInv, CondInv
<1>2. Len(calls) \in Nat /\ Len(calls') \in Nat
      /\ (\A j \in 1 .. Len(calls) : calls[j].line \in Nat)
      /\ (\A j \in 1 .. Len(calls') : calls'[j].line \in Nat)
  <2>1. calls \in Seq(Call) /\ calls' \in Seq(Call)
    BY <1>1 DEF CallInv
  <2>2. \A c \in Call : c.line \in Nat
    BY DEF Call
  <2> QED BY <2>1, <2>2
<1>3. /\ Len(files[p]) \in Nat /\ Len(files[p]) >= 3
      /\ files[p][1].op = "ifndef" /\ files[p][2].op = "define"
  BY <1>1, GuardedLines
<1>4. CASE ReadsOn
  <2>1. /\ Len(calls) \in Nat \ {0} /\ Cur = calls[Len(calls)] /\ Len(calls') = Len(calls)
        /\ \A j \in 1 .. Len(calls) : j # Len(calls) => calls'[j] = calls[j]
        /\ calls'[Len(calls)].line = Cur.line + 1
    BY <1>1, <1>4, ReadsOnFacts
  <2>2. Inside(p, i)
    BY <1>4, <2>1, InsideReading
  <2>3. calls[i].line <= calls'[i].line
    <3>1. CASE i = Len(calls)
      BY <1>2, <2>1, <3>1
    <3>2. CASE i # Len(calls)
      BY <1>2, <2>1, <3>2
    <3> QED BY <3>1, <3>2
  <2> QED BY <1>2, <2>1, <2>2, <2>3
<1>5. CASE Include
  <2> DEFINE n == Len(calls)
  <2>1. /\ files' = files /\ cs' = cs /\ n \in Nat \ {0}
        /\ Len(calls') = n + 1
        /\ \A j \in 1 .. n : calls'[j] = calls[j]
        /\ calls'[n + 1].line = 1 /\ calls'[n + 1].base = cs
    BY <1>1, <1>5, EnterFacts
  <2>2. i # n + 1
    BY <2>1 DEF Inside
  <2>3. i \in 1 .. n /\ calls'[i] = calls[i]
    BY <2>1, <2>2
  <2>4. Above(i)' = Above(i)
    <3>1. CASE i = n
      BY <2>1, <3>1 DEF Above
    <3>2. CASE i # n
      <4>1. i < n /\ i + 1 \in 1 .. n
        BY <2>1, <2>3, <3>2
      <4> QED BY <2>1, <4>1 DEF Above
    <3> QED BY <3>1, <3>2
  <2> QED BY <1>2, <2>1, <2>3, <2>4 DEF Inside
<1>6. CASE Return
  <2> DEFINE n == Len(calls) - 1
  <2>1. /\ n \in Nat \ {0} /\ Len(calls) = n + 1 /\ Cur = calls[n + 1]
        /\ status = "running" /\ AtEnd /\ files' = files /\ cs' = cs /\ dropped' = dropped
        /\ Len(calls') = n
        /\ \A j \in 1 .. n : j # n => calls'[j] = calls[j]
        /\ calls'[n].path = calls[n].path /\ calls'[n].base = calls[n].base
        /\ calls'[n].line = calls[n].line + 1
    BY <1>1, <1>6, ReturnFacts DEF condVars, CallInv
  <2>2. cs = Cur.base
    <3>1. AllWellNested /\ \A j \in 1 .. Len(calls) : Level(j)
      BY <2>1 DEF LoopInv, NestInv, IsGuarded
    <3> QED BY <1>1, <2>1, <3>1, EndNested
  <2> HIDE DEF n
  <2>3. i \in 1 .. n
    BY <2>1
  <2>4. CASE i = n
    <3>1. Above(i) = cs /\ Above(i)' = cs
      BY <2>1, <2>2, <2>4 DEF Above
    <3>2. /\ calls[i].line \in 1 .. Len(files[calls[i].path])
          /\ files[calls[i].path][calls[i].line].op = "include"
      <4>1. i \in 1 .. Len(calls) - 1
        BY <2>1, <2>4
      <4> QED BY <1>1, <4>1, WaitsAtInclude
    <3>3. calls[i].path = p /\ calls[i].base = calls'[i].base
          /\ Above(i)[Len(calls[i].base) + 1].active
      BY <2>1, <2>4, <3>1 DEF Inside
    <3>4. calls[i].line \in 2 .. Len(files[p])
      BY <1>3, <3>2, <3>3
    <3>5. calls[i].line <= calls'[i].line /\ i \in 1 .. Len(calls)
      BY <1>2, <2>1, <2>3, <2>4
    <3> QED BY <1>2, <3>3, <3>4, <3>5 DEF Inside
  <2>5. CASE i # n
    <3>1. i < n /\ i + 1 \in 1 .. n /\ calls'[i] = calls[i] /\ calls'[i + 1].base = calls[i + 1].base
      <4>1. i < n /\ i + 1 \in 1 .. n /\ calls'[i] = calls[i]
        BY <2>1, <2>3, <2>5
      <4>2. CASE i + 1 = n
        BY <2>1, <4>1, <4>2
      <4>3. CASE i + 1 # n
        BY <2>1, <4>1, <4>3
      <4> QED BY <4>1, <4>2, <4>3
    <3>2. Above(i)' = Above(i)
      BY <2>1, <3>1 DEF Above
    <3>3. Inside(p, i)
      BY <2>1, <3>1, <3>2 DEF Inside
    <3> QED BY <1>2, <2>1, <2>3, <3>1, <3>3
  <2> QED BY <2>4, <2>5
<1>7. CASE Open
  <2>1. calls' = <<Enter(Main, <<>>)>> /\ Enter(Main, <<>>).line = 1
    BY <1>7 DEF Open, Enter
  <2>2. calls'[i].line = 1
    BY <2>1
  <2> QED BY <2>2 DEF Inside
<1>8. CASE Finish
  <2>1. calls' = <<>>
    BY <1>8 DEF Finish
  <2> QED BY <2>1
<1>9. CASE OpenFails \/ UNCHANGED vars
  <2>1. calls' = calls /\ files' = files /\ cs' = cs
    BY <1>9 DEF OpenFails, vars, ppVars, condVars
  <2>2. Above(i)' = Above(i)
    BY <2>1 DEF Above
  <2> QED BY <1>2, <2>1, <2>2 DEF Inside
<1> QED BY <1>4, <1>5, <1>6, <1>7, <1>8, <1>9, Zenon DEF Next, ReadsOn

(* A guard is not removed, and a line at a guarded file's end is none.     *)
LEMMA GuardStays ==
  ASSUME LoopInv, NEW g, NeverRemoved(g), [Next]_vars, g \in DOMAIN macros
  PROVE  g \in DOMAIN macros'
<1>1. CASE Define
  BY <1>1, Zenon DEF Define, AddMacro
<1>2. CASE Undef
  <2>1. /\ status = "running" /\ ~AtEnd /\ Here.op = "undef"
        /\ macros' = IF CondActive(cs) THEN RemoveMacro(macros, Here.name) ELSE macros
    BY <1>2 DEF Undef, At
  <2>2. CallInv
    BY DEF LoopInv
  <2>3. /\ Cur \in Call /\ Cur.path \in DOMAIN files /\ Len(files[Cur.path]) \in Nat
    BY <2>1, <2>2, Running
  <2>4. DOMAIN files[Cur.path] = 1 .. Len(files[Cur.path])
    BY <2>2, <2>3, PreprocAssumption DEF CallInv, FileSystem
  <2>5. Cur.line \in DOMAIN files[Cur.path]
    BY <2>1, <2>3, <2>4 DEF AtEnd, Call
  <2>6. Here.name # g
    BY <2>1, <2>3, <2>5 DEF Here, NeverRemoved
  <2>7. g \in DOMAIN RemoveMacro(macros, Here.name)
    BY <2>6 DEF RemoveMacro
  <2> QED BY <2>1, <2>7
<1>3. CASE ~Define /\ ~Undef
  <2>1. macros' = macros
    BY <1>3 DEF Next, vars, ppVars, Open, OpenFails, Include, IncludeTooDeep, IncludeFails,
       IncludeSkipped, Return, Finish, IfDirective, BranchDirective, Message, PassThrough, TextLine
  <2> QED BY <2>1
<1> QED BY <1>1, <1>2, <1>3

(* As long as the guard is not defined, nothing of its file waits.         *)
LEMMA NoneWaits ==
  ASSUME LoopInv, NEW p, NEW g, IsGuarded(p, g),
         NEW i \in 1 .. Len(calls) - 1, calls[i].path = p, calls[i].line <= 2
  PROVE  FALSE
<1>1. CallInv
  BY DEF LoopInv
<1>2. files[p][1].op = "ifndef" /\ files[p][2].op = "define" /\ Len(files[p]) \in Nat
  BY <1>1, GuardedLines
<1>3. calls[i].line \in 1 .. Len(files[p]) /\ files[p][calls[i].line].op = "include"
  BY <1>1, WaitsAtInclude
<1>4. calls[i].line = 1 \/ calls[i].line = 2
  BY <1>2, <1>3
<1> QED BY <1>2, <1>3, <1>4

LEMMA UndefinedStep ==
  ASSUME LoopInv, NEW p, NEW g, IsGuarded(p, g), [Next]_vars, ~dropped, ~dropped',
         GuardInv(p, g), g \notin DOMAIN macros',
         NEW i \in 1 .. Len(calls'), calls'[i].path = p
  PROVE  calls'[i].line <= 2 /\ (calls'[i].line = 2 => Inside(p, i)')
<1>1. CallInv /\ CondTypeOK
  BY DEF LoopInv, CondInv
<1>2. g \notin DOMAIN macros
  BY GuardStays DEF IsGuarded
<1>3. \A j \in 1 .. Len(calls) :
        calls[j].path = p => calls[j].line <= 2 /\ (calls[j].line = 2 => Inside(p, j))
  BY <1>2 DEF GuardInv
<1>4. /\ Len(files[p]) \in Nat /\ Len(files[p]) >= 3
      /\ files[p][1].op = "ifndef" /\ files[p][1].name = g
      /\ files[p][2].op = "define" /\ files[p][2].name = g
  BY <1>1, GuardedLines
<1>5. CASE ReadsOn
  <2> DEFINE n == Len(calls)
  <2>1. /\ n \in Nat \ {0} /\ Cur = calls[n] /\ Cur.line \in Nat \ {0} /\ status = "running"
        /\ Len(calls') = n
        /\ \A j \in 1 .. n : j # n => calls'[j] = calls[j]
        /\ calls'[n].path = Cur.path /\ calls'[n].line = Cur.line + 1
    BY <1>1, <1>5, ReadsOnFacts
  <2>2. CASE i # n
    <3>1. i \in 1 .. Len(calls) - 1 /\ i \in 1 .. Len(calls) /\ calls'[i] = calls[i]
      BY <2>1, <2>2
    <3>2. calls[i].path = p /\ calls[i].line <= 2
      BY <1>3, <3>1
    <3> QED BY <3>1, <3>2, NoneWaits
  <2>3. CASE i = n
    <3>1. Cur.path = p /\ n \in 1 .. Len(calls) /\ calls'[i].line = Cur.line + 1
      BY <2>1, <2>3
    <3>2. Cur.line <= 2 /\ (Cur.line = 2 => Inside(p, n))
      BY <1>3, <2>1, <3>1
    <3>3. CASE Cur.line = 1
      <4>1. Inside(p, Len(calls))'
        BY <1>2, <1>5, <3>1, <3>3, FirstLine
      <4>2. Len(calls') = n
        BY <2>1
      <4> HIDE DEF n
      <4>3. Inside(p, i)' <=> Inside(p, Len(calls))'
        BY <2>3, <4>2 DEF Inside, n
      <4> QED BY <3>1, <3>3, <4>1, <4>3
    <3>4. CASE Cur.line = 2
      <4>1. Here.op = "define" /\ Here.name = g
        BY <1>4, <3>1, <3>4 DEF Here
      <4>2. macros' = IF CondActive(cs) THEN AddMacro(macros, g, Here.macro) ELSE macros
        <5>1. Define
          BY <1>5, <4>1 DEF ReadsOn, IncludeTooDeep, IncludeFails, IncludeSkipped, Undef,
             IfDirective, BranchDirective, Message, PassThrough, TextLine, At
        <5> QED BY <4>1, <5>1 DEF Define
      <4>3. Inside(p, n) /\ Above(n) = cs
        BY <2>1, <3>2, <3>4 DEF Above
      <4>4. cs[Len(Cur.base) + 1].active
        BY <2>1, <4>3 DEF Inside
      <4>5. /\ Len(Cur.base) \in Nat /\ Under(Cur.base, cs) /\ cs \in Seq(Frame)
            /\ Len(cs) = Len(Cur.base) + 1
        <5>1. Cur.line \in 1 .. Len(files[p])
          BY <1>4, <3>4
        <5> QED BY <2>1, <3>1, <3>4, <5>1, GuardFrame
      <4>6. CondActive(Cur.base)
        BY <2>1, <3>1 DEF LoopInv, BasesActive
      <4>7. \A j \in 1 .. Len(Cur.base) : cs[j].active
        <5>1. DOMAIN Cur.base = 1 .. Len(Cur.base)
          <6>1. Cur.base \in Seq(Frame)
            BY <1>1, <1>5, ReadsOnFacts
          <6> QED BY <6>1
        <5> QED BY <4>5, <4>6, <5>1 DEF CondActive, Under
      <4>8. CondActive(cs)
        BY <4>4, <4>5, <4>7 DEF CondActive
      <4>9. g \in DOMAIN AddMacro(macros, g, Here.macro)
        BY DEF AddMacro
      <4> QED BY <4>2, <4>8, <4>9
    <3> QED BY <2>1, <3>2, <3>3, <3>4
  <2> QED BY <2>2, <2>3
<1>6. CASE Include
  <2> DEFINE n == Len(calls)
  <2>1. /\ n \in Nat \ {0} /\ Len(calls') = n + 1 /\ status = "running"
        /\ \A j \in 1 .. n : calls'[j] = calls[j]
        /\ calls'[n + 1].line = 1
    BY <1>1, <1>6, EnterFacts
  <2>2. CASE i = n + 1
    BY <2>1, <2>2
  <2>3. CASE i \in 1 .. n - 1
    <3>1. i \in 1 .. Len(calls) - 1 /\ i \in 1 .. Len(calls) /\ calls'[i] = calls[i]
      BY <2>1, <2>3
    <3>2. calls[i].path = p /\ calls[i].line <= 2
      BY <1>3, <3>1
    <3> QED BY <3>1, <3>2, NoneWaits
  <2>4. CASE i = n
    <3>1. Cur = calls[n] /\ Cur \in Call
      BY <1>1, <2>1, Running
    <3>2. Cur.path = p /\ Cur.line <= 2 /\ Cur.line \in Nat \ {0}
      BY <1>3, <2>1, <2>4, <3>1 DEF Call
    <3>3. Here.op = "include"
      BY <1>6 DEF Include, At
    <3>4. Cur.line = 1 \/ Cur.line = 2
      BY <3>2
    <3> QED BY <1>4, <3>2, <3>3, <3>4 DEF Here
  <2> QED BY <2>1, <2>2, <2>3, <2>4
<1>7. CASE Return
  <2> DEFINE n == Len(calls) - 1
  <2>1. /\ n \in Nat \ {0} /\ Len(calls) = n + 1 /\ Len(calls') = n
        /\ \A j \in 1 .. n : j # n => calls'[j] = calls[j]
        /\ calls'[n].path = calls[n].path
    BY <1>1, <1>7, ReturnFacts
  <2> HIDE DEF n
  <2>2. calls[i].path = p /\ i \in 1 .. Len(calls) - 1 /\ i \in 1 .. Len(calls)
    <3>1. CASE i = n
      BY <2>1, <3>1
    <3>2. CASE i # n
      BY <2>1, <3>2
    <3> QED BY <3>1, <3>2
  <2>3. calls[i].line <= 2
    BY <1>3, <2>2
  <2> QED BY <2>2, <2>3, NoneWaits
<1>8. CASE Open
  <2>1. calls' = <<Enter(Main, <<>>)>> /\ Enter(Main, <<>>).line = 1
    BY <1>8 DEF Open, Enter
  <2>2. calls'[i].line = 1
    BY <2>1
  <2> QED BY <2>2
<1>9. CASE Finish
  <2>1. calls' = <<>>
    BY <1>9 DEF Finish
  <2> QED BY <2>1
<1>10. CASE OpenFails \/ UNCHANGED vars
  <2>1. calls' = calls /\ files' = files /\ cs' = cs
    BY <1>10 DEF OpenFails, vars, ppVars, condVars
  <2>2. Inside(p, i)' <=> Inside(p, i)
    BY <2>1 DEF Inside, Above
  <2> QED BY <1>3, <2>1, <2>2
<1> QED BY <1>5, <1>6, <1>7, <1>8, <1>9, <1>10, Zenon DEF Next, ReadsOn

(* A line of text in the output was there or is the one just read.         *)
LEMMA NewText ==
  ASSUME LoopInv, NEW p, NEW g, IsGuarded(p, g), [Next]_vars, ~dropped, NEW m, FromFile(p, m)'
  PROVE  \/ FromFile(p, m) /\ out'[m] = out[m]
         \/ /\ m = Len(out) + 1 /\ TextLine /\ Cur = calls[Len(calls)]
            /\ Len(calls) \in 1 .. Len(calls)
            /\ Cur.path = p /\ out'[m].line = Cur.line /\ Cur.line \in 3 .. Len(files[p])
            /\ Inside(p, Len(calls))
<1>1. CallInv /\ OutIsSeq
  BY DEF LoopInv
<1>2. /\ Len(out) \in Nat /\ Len(out') \in Nat /\ Len(out) <= Len(out')
      /\ DOMAIN out = 1 .. Len(out) /\ DOMAIN out' = 1 .. Len(out')
      /\ \A j \in 1 .. Len(out) : out'[j] = out[j]
  BY <1>1, OutGrows
<1>3. m \in 1 .. Len(out') /\ out'[m].k = "text" /\ out'[m].path = p /\ out'[m].toks # <<>>
  BY <1>2 DEF FromFile
<1>4. CASE m \in 1 .. Len(out)
  BY <1>2, <1>3, <1>4 DEF FromFile
<1>5. CASE m \notin 1 .. Len(out)
  <2>1. m \in Len(out) + 1 .. Len(out')
    BY <1>2, <1>3, <1>5
  <2>2. ~NoText
    BY <1>3, <2>1 DEF NoText
  <2>3. /\ TextLine /\ CondActive(cs) /\ Len(out') = Len(out) + 1
        /\ out'[Len(out) + 1].path = Cur.path /\ out'[Len(out) + 1].line = Cur.line
    BY <1>1, <2>2, TextIsRead
  <2>4. m = Len(out) + 1 /\ Cur.path = p /\ out'[m].line = Cur.line
    BY <1>2, <1>3, <2>1, <2>3
  <2>5. status = "running" /\ ~AtEnd /\ Here.op = "text"
    BY <2>3 DEF TextLine, At
  <2>6. /\ calls \in Seq(Call) /\ Len(calls) \in Nat \ {0} /\ Cur = calls[Len(calls)] /\ Cur \in Call
    BY <1>1, <2>5, Running
  <2>7. /\ Len(files[p]) \in Nat
        /\ files[p][1].op = "ifndef" /\ files[p][2].op = "define" /\ files[p][Len(files[p])].op = "endif"
    BY <1>1, GuardedLines
  <2>8. Cur.line \in 3 .. Len(files[p])
    <3>1. Cur.line \in Nat \ {0} /\ Cur.line <= Len(files[p])
      BY <2>4, <2>5, <2>6, <2>7 DEF AtEnd, Call
    <3>2. Cur.line # 1 /\ Cur.line # 2
      BY <2>4, <2>5, <2>7 DEF Here
    <3> QED BY <2>7, <3>1, <3>2
  <2>9. /\ Len(Cur.base) \in Nat /\ cs \in Seq(Frame) /\ Len(cs) >= Len(Cur.base) + 1
    <3>1. Cur.line \in 1 .. Len(files[p]) /\ Cur.line > 1
      BY <2>7, <2>8
    <3> QED BY <2>4, <2>5, <3>1, GuardFrame
  <2>10. cs[Len(Cur.base) + 1].active
    <3>1. Len(Cur.base) + 1 \in DOMAIN cs
      BY <2>9
    <3> QED BY <2>3, <3>1 DEF CondActive
  <2>11. Inside(p, Len(calls))
    <3>1. Above(Len(calls)) = cs
      BY <2>6 DEF Above
    <3>2. calls[Len(calls)].line \in 2 .. Len(files[p])
      BY <2>6, <2>7, <2>8
    <3> QED BY <2>4, <2>6, <2>10, <3>1, <3>2 DEF Inside
  <2> QED BY <2>3, <2>4, <2>6, <2>8, <2>11
<1> QED BY <1>4, <1>5

LEMMA GuardStep ==
  ASSUME LoopInv, NEW p, NEW g, GuardInv(p, g), [Next]_vars
  PROVE  GuardInv(p, g)'
<1> SUFFICES ASSUME IsGuarded(p, g)', ~dropped'
             PROVE  /\ g \notin DOMAIN macros' =>
                         /\ \A m : ~FromFile(p, m)'
                         /\ \A i \in 1 .. Len(calls') :
                              calls'[i].path = p =>
                                calls'[i].line <= 2 /\ (calls'[i].line = 2 => Inside(p, i)')
                    /\ \A i, j \in 1 .. Len(calls') : Inside(p, i)' /\ Inside(p, j)' => i = j
                    /\ \A m : FromFile(p, m)' => out'[m].line \in Nat
                    /\ \A i \in 1 .. Len(calls') : Inside(p, i)' =>
                         \A m : FromFile(p, m)' => out'[m].line < calls'[i].line
                    /\ \A m, l : FromFile(p, m)' /\ FromFile(p, l)' /\ out'[m].line = out'[l].line => m = l
  BY DEF GuardInv
<1>1. CallInv /\ CondTypeOK
  BY DEF LoopInv, CondInv
<1>2. IsGuarded(p, g) /\ ~dropped
  <2>1. files' = files
    <3>1. CASE UNCHANGED vars
      BY <3>1 DEF vars, ppVars
    <3>2. CASE Open \/ OpenFails \/ Include \/ Return \/ Finish
      BY <3>2 DEF Open, OpenFails, Include, Return, Finish
    <3>3. CASE IncludeTooDeep \/ IncludeFails \/ IncludeSkipped \/ Define \/ Undef
      BY <3>3 DEF IncludeTooDeep, IncludeFails, IncludeSkipped, Define, Undef
    <3>4. CASE IfDirective
      BY <3>4 DEF IfDirective
    <3>5. CASE BranchDirective
      BY <3>5 DEF BranchDirective
    <3>6. CASE Message \/ PassThrough \/ TextLine
      BY <3>6 DEF Message, PassThrough, TextLine
    <3> QED BY <3>1, <3>2, <3>3, <3>4, <3>5, <3>6 DEF Next
  <2>2. ~dropped
    <3>1. CASE ReadsOn
      BY <1>1, <3>1, StackStep
    <3>2. CASE Open \/ OpenFails \/ Include \/ Return \/ Finish
      <4>1. UNCHANGED condVars
        BY <3>2, Zenon DEF Open, OpenFails, Include, Return, Finish
      <4> QED BY <4>1 DEF condVars
    <3>3. CASE UNCHANGED vars
      <4>1. UNCHANGED condVars
        BY <3>3, Zenon DEF vars
      <4> QED BY <4>1 DEF condVars
    <3> QED BY <3>1, <3>2, <3>3 DEF Next, ReadsOn
  <2> QED BY <2>1, <2>2 DEF IsGuarded, AllWellNested, NeverRemoved
<1>3. /\ g \notin DOMAIN macros =>
           /\ \A m : ~FromFile(p, m)
           /\ \A i \in 1 .. Len(calls) :
                calls[i].path = p => calls[i].line <= 2 /\ (calls[i].line = 2 => Inside(p, i))
      /\ \A i, j \in 1 .. Len(calls) : Inside(p, i) /\ Inside(p, j) => i = j
      /\ \A m : FromFile(p, m) => out[m].line \in Nat
      /\ \A i \in 1 .. Len(calls) : Inside(p, i) =>
           \A m : FromFile(p, m) => out[m].line < calls[i].line
      /\ \A m, l : FromFile(p, m) /\ FromFile(p, l) /\ out[m].line = out[l].line => m = l
  BY <1>2 DEF GuardInv
<1>4. /\ Len(files[p]) \in Nat
      /\ files[p][1].op = "ifndef" /\ files[p][1].name = g /\ files[p][2].op = "define"
  BY <1>1, <1>2, GuardedLines
(* Who gets in is the first.                                               *)
<1>5. ASSUME NEW i \in 1 .. Len(calls'), Inside(p, i)', AtGuard(p), i = Len(calls)
      PROVE  /\ \A m : ~FromFile(p, m)
             /\ \A j \in 1 .. Len(calls) : ~Inside(p, j)
             /\ ~TextLine
  <2>1. /\ Len(calls) \in Nat \ {0} /\ Cur = calls[Len(calls)] /\ Len(calls') = Len(calls)
    BY <1>1, <1>5, ReadsOnFacts DEF AtGuard
  <2>2. Inside(p, Len(calls))'
    BY <1>5, <2>1 DEF Inside
  <2>3. g \notin DOMAIN macros
    BY <1>2, <1>5, <2>2, FirstLine DEF AtGuard
  <2>4. ASSUME NEW j \in 1 .. Len(calls), Inside(p, j) PROVE FALSE
    <3>1. calls[j].path = p /\ calls[j].line \in 2 .. Len(files[p]) /\ calls[j].line <= 2
      BY <1>3, <2>3, <2>4 DEF Inside
    <3>2. j # Len(calls)
      BY <1>4, <1>5, <2>1, <3>1 DEF AtGuard
    <3>3. j \in 1 .. Len(calls) - 1
      BY <2>1, <3>2
    <3> QED BY <1>2, <3>1, <3>3, NoneWaits
  <2>5. ~TextLine
    BY <1>4, <1>5 DEF AtGuard, TextLine, At, Here
  <2> QED BY <1>3, <2>3, <2>4, <2>5
(* Who is in was in, if nobody gets in.                                    *)
<1>6. ASSUME NEW i \in 1 .. Len(calls'), Inside(p, i)', ~(AtGuard(p) /\ i = Len(calls))
      PROVE  /\ i \in 1 .. Len(calls) /\ Inside(p, i)
             /\ calls[i].line \in Nat /\ calls'[i].line \in Nat /\ calls[i].line <= calls'[i].line
  BY <1>2, <1>6, InsideGrows
<1>7. ASSUME NEW m, FromFile(p, m)'
      PROVE  \/ FromFile(p, m) /\ out'[m] = out[m]
             \/ /\ m = Len(out) + 1 /\ TextLine /\ Cur = calls[Len(calls)]
                /\ Len(calls) \in 1 .. Len(calls)
                /\ Cur.path = p /\ out'[m].line = Cur.line /\ Cur.line \in 3 .. Len(files[p])
                /\ Inside(p, Len(calls))
  BY <1>2, <1>7, NewText
<1>8. ASSUME g \notin DOMAIN macros'
      PROVE  /\ \A m : ~FromFile(p, m)'
             /\ \A i \in 1 .. Len(calls') :
                  calls'[i].path = p =>
                    calls'[i].line <= 2 /\ (calls'[i].line = 2 => Inside(p, i)')
  <2>1. g \notin DOMAIN macros
    BY <1>2, <1>8, GuardStays DEF IsGuarded
  <2>2. ASSUME NEW m, FromFile(p, m)' PROVE FALSE
    <3>1. CASE FromFile(p, m)
      BY <1>3, <2>1, <3>1
    <3>2. CASE ~FromFile(p, m)
      <4>1. /\ Len(calls) \in 1 .. Len(calls) /\ Cur = calls[Len(calls)]
            /\ Cur.path = p /\ Cur.line \in 3 .. Len(files[p])
        BY <1>7, <2>2, <3>2
      <4>2. calls[Len(calls)].line <= 2
        BY <1>3, <2>1, <4>1
      <4> QED BY <1>4, <4>1, <4>2
    <3> QED BY <3>1, <3>2
  <2>3. ASSUME NEW i \in 1 .. Len(calls'), calls'[i].path = p
        PROVE  calls'[i].line <= 2 /\ (calls'[i].line = 2 => Inside(p, i)')
    BY <1>2, <1>8, <2>3, UndefinedStep
  <2> QED BY <2>2, <2>3
<1>9. ASSUME NEW i \in 1 .. Len(calls'), NEW j \in 1 .. Len(calls'), Inside(p, i)', Inside(p, j)'
      PROVE  i = j
  <2>1. CASE AtGuard(p) /\ i = Len(calls)
    <3>1. \A e \in 1 .. Len(calls) : ~Inside(p, e)
      BY <1>5, <1>9, <2>1
    <3>2. CASE j = Len(calls)
      BY <2>1, <3>2
    <3>3. CASE j # Len(calls)
      <4>1. j \in 1 .. Len(calls) /\ Inside(p, j)
        BY <1>6, <1>9, <3>3
      <4> QED BY <3>1, <4>1
    <3> QED BY <3>2, <3>3
  <2>2. CASE AtGuard(p) /\ j = Len(calls)
    <3>1. \A e \in 1 .. Len(calls) : ~Inside(p, e)
      BY <1>5, <1>9, <2>2
    <3>2. CASE i = Len(calls)
      BY <2>2, <3>2
    <3>3. CASE i # Len(calls)
      <4>1. i \in 1 .. Len(calls) /\ Inside(p, i)
        BY <1>6, <1>9, <3>3
      <4> QED BY <3>1, <4>1
    <3> QED BY <3>2, <3>3
  <2>3. CASE ~(AtGuard(p) /\ i = Len(calls)) /\ ~(AtGuard(p) /\ j = Len(calls))
    <3>1. i \in 1 .. Len(calls) /\ Inside(p, i)
      BY <1>6, <1>9, <2>3
    <3>2. j \in 1 .. Len(calls) /\ Inside(p, j)
      BY <1>6, <1>9, <2>3
    <3> QED BY <1>3, <3>1, <3>2
  <2> QED BY <2>1, <2>2, <2>3
<1>10. ASSUME NEW m, FromFile(p, m)' PROVE out'[m].line \in Nat
  <2>1. CASE FromFile(p, m) /\ out'[m] = out[m]
    BY <1>3, <2>1
  <2>2. CASE ~(FromFile(p, m) /\ out'[m] = out[m])
    <3>1. out'[m].line = Cur.line /\ Cur.line \in 3 .. Len(files[p])
      BY <1>7, <1>10, <2>2
    <3> QED BY <1>4, <3>1
  <2> QED BY <2>1, <2>2
<1>11. ASSUME NEW i \in 1 .. Len(calls'), Inside(p, i)', NEW m, FromFile(p, m)'
       PROVE  out'[m].line < calls'[i].line
  <2>1. CASE AtGuard(p) /\ i = Len(calls)
    <3>1. ~FromFile(p, m) /\ ~TextLine
      BY <1>5, <1>11, <2>1
    <3> QED BY <1>7, <1>11, <3>1
  <2>2. CASE ~(AtGuard(p) /\ i = Len(calls))
    <3>1. /\ i \in 1 .. Len(calls) /\ Inside(p, i)
          /\ calls[i].line \in Nat /\ calls'[i].line \in Nat /\ calls[i].line <= calls'[i].line
      BY <1>6, <1>11, <2>2
    <3>2. CASE FromFile(p, m) /\ out'[m] = out[m]
      <4>1. out[m].line < calls[i].line /\ out[m].line \in Nat
        BY <1>3, <3>1, <3>2
      <4> QED BY <3>1, <3>2, <4>1
    <3>3. CASE ~(FromFile(p, m) /\ out'[m] = out[m])
      <4>1. /\ TextLine /\ Len(calls) \in 1 .. Len(calls) /\ out'[m].line = Cur.line
            /\ Inside(p, Len(calls))
        BY <1>7, <1>11, <3>3
      <4>2. i = Len(calls)
        BY <1>3, <3>1, <4>1
      <4>3. calls'[i].line = Cur.line + 1 /\ Cur.line \in Nat
        BY <1>1, <4>1, <4>2, ReadsOnFacts DEF ReadsOn
      <4> QED BY <4>1, <4>3
    <3> QED BY <3>2, <3>3
  <2> QED BY <2>1, <2>2
<1>12. ASSUME NEW m, NEW l, FromFile(p, m)', FromFile(p, l)', FromFile(p, l) /\ out'[l] = out[l],
              ~(FromFile(p, m) /\ out'[m] = out[m])
       PROVE  out'[l].line < out'[m].line
  <2>1. /\ Len(calls) \in 1 .. Len(calls) /\ out'[m].line = Cur.line
        /\ Inside(p, Len(calls)) /\ Cur = calls[Len(calls)]
    BY <1>7, <1>12
  <2>2. out[l].line < calls[Len(calls)].line
    BY <1>3, <1>12, <2>1
  <2> QED BY <1>12, <2>1, <2>2
<1>13. ASSUME NEW m, NEW l, FromFile(p, m)', FromFile(p, l)', out'[m].line = out'[l].line
       PROVE  m = l
  <2>1. out'[m].line \in Nat /\ out'[l].line \in Nat
    BY <1>10, <1>13
  <2>2. CASE (FromFile(p, m) /\ out'[m] = out[m]) /\ (FromFile(p, l) /\ out'[l] = out[l])
    BY <1>3, <1>13, <2>2
  <2>3. CASE ~(FromFile(p, m) /\ out'[m] = out[m]) /\ (FromFile(p, l) /\ out'[l] = out[l])
    <3>1. out'[l].line < out'[m].line
      BY <1>12, <1>13, <2>3
    <3> QED BY <1>13, <2>1, <3>1
  <2>4. CASE (FromFile(p, m) /\ out'[m] = out[m]) /\ ~(FromFile(p, l) /\ out'[l] = out[l])
    <3>1. out'[m].line < out'[l].line
      BY <1>12, <1>13, <2>4
    <3> QED BY <1>13, <2>1, <3>1
  <2>5. CASE ~(FromFile(p, m) /\ out'[m] = out[m]) /\ ~(FromFile(p, l) /\ out'[l] = out[l])
    <3>1. m = Len(out) + 1
      BY <1>7, <1>13, <2>5
    <3>2. l = Len(out) + 1
      BY <1>7, <1>13, <2>5
    <3> QED BY <3>1, <3>2
  <2> QED BY <2>2, <2>3, <2>4, <2>5
<1> QED BY <1>8, <1>9, <1>10, <1>11, <1>13

AllGuards == \A p, g : GuardInv(p, g)

LEMMA LoopInvAlways == Spec => [](LoopInv /\ AllGuards)
<1>1. Init => BasesActive /\ OutIsSeq /\ AllGuards
  <2> SUFFICES ASSUME Init PROVE BasesActive /\ OutIsSeq /\ AllGuards
    OBVIOUS
  <2>1. calls = <<>> /\ out = <<>>
    BY DEF Init, PpInit
  <2>2. OutIsSeq /\ BasesActive
    BY <2>1 DEF OutIsSeq, BasesActive
  <2>3. \A p, m : ~FromFile(p, m)
    BY <2>1 DEF FromFile
  <2>4. 1 .. Len(calls) = {}
    BY <2>1
  <2> QED BY <2>2, <2>3, <2>4 DEF AllGuards, GuardInv
<1>2. CallInv /\ CondInv /\ BasesActive /\ [Next]_vars => BasesActive'
  BY BasesStep DEF CondInv
<1>3. LoopInv /\ AllGuards /\ [Next]_vars => AllGuards'
  BY GuardStep DEF AllGuards
<1>4. Init => StartInv
  BY DEF Init, CondInit, StartInv
<1>5. CondInv /\ StartInv /\ CallInv /\ NestInv /\ BasesActive /\ OutIsSeq <=> LoopInv
  BY DEF LoopInv
<1> QED BY <1>1, <1>2, <1>3, <1>4, <1>5, CondInvAlways, CallInvAlways, NestInvAlways, StartInvStep,
           OutIsSeqStep, PTL DEF Spec

(* A file with an include guard contributes its text at most once, however *)
(* often and from wherever it is included, itself among them.              *)
THEOREM GuardedOnceHolds == Spec => []GuardedOnce
<1>1. LoopInv /\ AllGuards => GuardedOnce
  <2> SUFFICES ASSUME LoopInv, AllGuards, AllWellNested, ~dropped, NEW p \in DOMAIN files,
                      NEW k \in {1} \cap DOMAIN files[p],
                      files[p][k].op = "ifndef", Guarded(files[p], files[p][k].name),
                      NeverRemoved(files[p][k].name),
                      NEW i \in {n \in DOMAIN out :
                                   out[n].k = "text" /\ out[n].path = p /\ out[n].toks # <<>>},
                      NEW j \in {n \in DOMAIN out :
                                   out[n].k = "text" /\ out[n].path = p /\ out[n].toks # <<>>},
                      out[i].line = out[j].line
               PROVE  i = j
    BY DEF GuardedOnce
  <2>1. IsGuarded(p, files[p][k].name)
    BY DEF IsGuarded
  <2>2. GuardInv(p, files[p][k].name)
    BY DEF AllGuards
  <2>3. FromFile(p, i) /\ FromFile(p, j)
    BY DEF FromFile
  <2> QED BY <2>1, <2>2, <2>3 DEF GuardInv
<1> QED BY <1>1, LoopInvAlways, PTL

-----------------------------------------------------------------------------
(* The lexer that keeps track of lines: first, what it is given to read.   *)

(* The line a lexer that has obeyed the markers takes a text to be on.     *)
Place(call) == call.line + (IF call.included THEN 1 ELSE 0)

(* The last marker before line m of the output o, and the lines since, put *)
(* that line at this place in this file.                                   *)
Told(o, m, path, line) ==
  \E k \in 1 .. m - 1 :
    /\ o[k].k = "marker" /\ o[k].path = path /\ o[k].line \in Nat
    /\ \A j \in k + 1 .. m - 1 : o[j].k # "marker"
    /\ line = o[k].line + (m - k - 1)

(* A line of the output that does not tell the lexer where it is though it *)
(* looks like a marker: one that lost its end, or the script's own.        *)
Misleads(item) == item.k = "cut" \/ (item.k = "marker" /\ item.user)

OnlyOurMarkers == \A i \in DOMAIN out : ~Misleads(out[i])

(* The lexer has room for the name of a marker.                            *)
Taken(path) == PathLength(path) \in Nat /\ PathLength(path) < NameSize

OutInv ==
  OnlyOurMarkers =>
    /\ \A m \in 1 .. Len(out) : out[m].k = "marker" => Taken(out[m].path)
    /\ \A m \in 1 .. Len(out) : out[m].k = "text" => Told(out, m, out[m].path, Place(out[m]))
    /\ status = "running" => Told(out, Len(out) + 1, Cur.path, Place(Cur))

LEMMA ToldKept ==
  ASSUME NEW o, NEW q, NEW n \in Nat, \A i \in 1 .. n : q[i] = o[i],
         NEW m \in 1 .. n + 1, NEW path, NEW line, Told(o, m, path, line)
  PROVE  Told(q, m, path, line)
<1>1. PICK k \in 1 .. m - 1 :
        /\ o[k].k = "marker" /\ o[k].path = path /\ o[k].line \in Nat
        /\ \A j \in k + 1 .. m - 1 : o[j].k # "marker"
        /\ line = o[k].line + (m - k - 1)
  BY DEF Told
<1>2. q[k] = o[k] /\ \A j \in k + 1 .. m - 1 : q[j] = o[j]
  OBVIOUS
<1> QED BY <1>1, <1>2 DEF Told

LEMMA ToldGoesOn ==
  ASSUME NEW o, NEW m \in Nat \ {0}, NEW path, NEW line, Told(o, m, path, line),
         o[m].k # "marker"
  PROVE  Told(o, m + 1, path, line + 1)
<1>1. PICK k \in 1 .. m - 1 :
        /\ o[k].k = "marker" /\ o[k].path = path /\ o[k].line \in Nat
        /\ \A j \in k + 1 .. m - 1 : o[j].k # "marker"
        /\ line = o[k].line + (m - k - 1)
  BY DEF Told
<1>2. k \in 1 .. (m + 1) - 1 /\ \A j \in k + 1 .. (m + 1) - 1 : o[j].k # "marker"
  BY <1>1
<1>3. line + 1 = o[k].line + ((m + 1) - k - 1)
  BY <1>1
<1> QED BY <1>1, <1>2, <1>3 DEF Told

LEMMA ToldByMarker ==
  ASSUME NEW o, NEW m \in Nat \ {0}, o[m].k = "marker", o[m].line \in Nat
  PROVE  Told(o, m + 1, o[m].path, o[m].line)
<1>1. m \in 1 .. (m + 1) - 1 /\ o[m].line = o[m].line + ((m + 1) - m - 1)
      /\ \A j \in m + 1 .. (m + 1) - 1 : o[j].k # "marker"
  OBVIOUS
<1> QED BY <1>1 DEF Told

(* The five things a step does to the output and the innermost file: it    *)
(* opens a file, comes back from one, writes a line of it, writes what     *)
(* misleads, or stops.                                                     *)
Opens ==
  /\ Len(out') = Len(out) + 1 /\ status' = "running"
  /\ out'[Len(out')].k = "marker" /\ out'[Len(out')].line = 1
  /\ out'[Len(out')].path = Cur'.path /\ Place(Cur') = 1
  /\ Taken(Cur'.path)

ComesBack ==
  LET m == Len(out) + 1
  IN  /\ Len(out') = m + 1 /\ status' = "running"
      /\ out'[m].k = "marker" /\ out'[m].line \in Nat
      /\ out'[m + 1].k = "text" /\ out'[m + 1].path = out'[m].path
      /\ Place(out'[m + 1]) = out'[m].line
      /\ Cur'.path = out'[m].path /\ Place(Cur') = out'[m].line + 1
      /\ Taken(Cur'.path)

WritesLine ==
  /\ Len(out') = Len(out) + 1 /\ status = "running"
  /\ out'[Len(out')].k \in {"text", "pragma"}
  /\ out'[Len(out')].k = "text" =>
       out'[Len(out')].path = Cur.path /\ Place(out'[Len(out')]) = Place(Cur)
  /\ Cur'.path = Cur.path /\ Place(Cur') = Place(Cur) + 1

Spoils == \E i \in 1 .. Len(out') : Misleads(out'[i])

LEMMA FittingIsTaken ==
  ASSUME NEW path, NEW line \in Nat, PathLength(path) \in Nat, Fits(line, path)
  PROVE  Taken(path)
<1> DEFINE S == {k \in 1 .. 9 : line >= 10^k}
<1>1. IsFiniteSet(1 .. 9) /\ S \subseteq 1 .. 9
  <2>1. 1 \in Int /\ 9 \in Int
    OBVIOUS
  <2>2. IsFiniteSet(1 .. 9)
    BY <2>1, FS_Interval
  <2> QED BY <2>2
<1>2. IsFiniteSet(S)
  BY <1>1, FS_Subset
<1>3. PICK n \in Nat : n = Cardinality(S)
  BY <1>2, FS_CardinalityType
<1>4. Digits(line) = 1 + n
  BY <1>3 DEF Digits
<1>5. TmpSize \in Nat /\ NameSize \in Nat /\ TmpSize <= NameSize
  BY LineTrackAssumption, PreprocAssumption
<1> HIDE DEF S
<1>6. 10 + (1 + n) + PathLength(path) < TmpSize
  BY <1>4 DEF Fits
<1> QED BY <1>5, <1>6 DEF Taken

(* A marker of the preprocessor for a file that is there.                  *)
LEMMA MarkerIs ==
  ASSUME CallInv, NEW path \in DOMAIN files, NEW line \in Nat
  PROVE  LET x == Marker(line, path)
         IN  /\ x.line = line /\ x.path = path /\ ~x.user
             /\ Misleads(x) \/ (x.k = "marker" /\ Taken(path))
<1>1. PathLength(path) \in Nat
  BY PreprocAssumption DEF CallInv
<1> QED BY <1>1, FittingIsTaken DEF Marker, Misleads

Stops == out' = out /\ (status' = "running" => status = "running" /\ calls' = calls)

LEMMA NextCall ==
  ASSUME CallInv, status = "running", NEW n \in 1 .. Len(calls), NEW c \in Call
  PROVE  /\ n = Len(calls) /\ calls' = [calls EXCEPT ![n] = c] => Cur' = c
         /\ n = Len(calls) - 1 /\ calls' = [Front(calls) EXCEPT ![n] = c] => Cur' = c
<1>1. calls \in Seq(Call) /\ calls # <<>> /\ Len(calls) \in Nat \ {0}
  BY Running
<1>2. ASSUME n = Len(calls), calls' = [calls EXCEPT ![n] = c] PROVE Cur' = c
  <2>1. Len(calls') = n /\ calls'[n] = c
    BY <1>1, <1>2, Replaced
  <2> QED BY <2>1 DEF Cur, Last
<1>3. ASSUME n = Len(calls) - 1, calls' = [Front(calls) EXCEPT ![n] = c] PROVE Cur' = c
  <2>1. Front(calls) \in Seq(Call) /\ Len(Front(calls)) = n
    BY <1>1, <1>3, FrontFacts
  <2>2. n \in 1 .. Len(Front(calls))
    BY <2>1
  <2>3. Len(calls') = n /\ calls'[n] = c
    BY <1>3, <2>1, <2>2, Replaced
  <2> QED BY <2>3 DEF Cur, Last
<1> QED BY <1>2, <1>3

LEMMA PlaceOfNext ==
  ASSUME NEW c \in Call
  PROVE  /\ [c EXCEPT !.line = @ + 1] \in Call /\ [c EXCEPT !.line = @ + 1].path = c.path
         /\ Place([c EXCEPT !.line = @ + 1]) = Place(c) + 1
         /\ Resumed(c) \in Call /\ Resumed(c).path = c.path
         /\ Place(Resumed(c)) = c.line + 2 /\ c.line + 1 \in Nat
         /\ \A toks : /\ Text(c, toks).k = "text" /\ Text(c, toks).path = c.path
                      /\ Place(Text(c, toks)) = Place(c)
         /\ LET t == Text([c EXCEPT !.included = TRUE], <<>>)
            IN  t.k = "text" /\ t.path = c.path /\ Place(t) = c.line + 1
<1>1. /\ c = [path |-> c.path, line |-> c.line, included |-> c.included, base |-> c.base]
      /\ c.path \in Path /\ c.line \in Nat \ {0} /\ c.included \in BOOLEAN /\ c.base \in Seq(Frame)
  BY DEF Call
<1>2. [c EXCEPT !.line = @ + 1]
        = [path |-> c.path, line |-> c.line + 1, included |-> c.included, base |-> c.base]
  BY <1>1
<1>3. /\ [c EXCEPT !.included = TRUE].path = c.path
      /\ [c EXCEPT !.included = TRUE].line = c.line
      /\ [c EXCEPT !.included = TRUE].included
  BY DEF Call
<1> DEFINE d == [c EXCEPT !.line = @ + 1]
           e == [c EXCEPT !.included = TRUE]
           t == Text(e, <<>>)
<1>4. d.path = c.path /\ d.line = c.line + 1 /\ d.included = c.included
  BY <1>2
<1>5. Place(d) = Place(c) + 1
  BY <1>1, <1>4 DEF Place
<1>6. Place(Resumed(c)) = c.line + 2
  <2>1. Resumed(c).line = c.line + 1 /\ Resumed(c).included = TRUE
    BY DEF Resumed
  <2> HIDE DEF d, e, t
  <2> QED BY ONLY <1>1, <2>1 DEF Place
<1>7. \A toks : /\ Text(c, toks).k = "text" /\ Text(c, toks).path = c.path
               /\ Place(Text(c, toks)) = Place(c)
  BY DEF Place, Text
<1>8. t.k = "text" /\ t.path = c.path /\ t.line = c.line /\ t.included
  BY <1>3 DEF Text
<1>9. Place(t) = c.line + 1
  BY <1>8 DEF Place
<1>10. d \in Call /\ Resumed(c) \in Call /\ Resumed(c).path = c.path /\ c.line + 1 \in Nat
  BY <1>1, CallMoves
<1> QED BY <1>4, <1>5, <1>6, <1>7, <1>8, <1>9, <1>10

LEMMA StepWrites ==
  ASSUME CallInv, CondTypeOK, OutIsSeq, [Next]_vars
  PROVE  Opens \/ ComesBack \/ WritesLine \/ Spoils \/ Stops
<1>1. Len(out) \in Nat
  BY DEF OutIsSeq
<1>2. CASE OpenFails \/ Finish \/ UNCHANGED vars
  BY <1>2 DEF OpenFails, Finish, vars, ppVars, Stops
<1>3. CASE Open
  <2>1. /\ Put(<<Marker(1, Main)>>) /\ status' = "running"
        /\ calls' = <<Enter(Main, <<>>)>>
    BY <1>3 DEF Open
  <2>2. Cur' = Enter(Main, <<>>)
    BY <2>1 DEF Cur, Last
  <2>3. Cur'.path = Main /\ Place(Cur') = 1
    BY <2>2 DEF Enter, Place
  <2>4. Len(out') = Len(out) + 1 /\ out'[Len(out) + 1] = Marker(1, Main)
    BY <2>1, PutOne
  <2>5. Main \in DOMAIN files
    BY <1>3 DEF Open
  <2> DEFINE x == Marker(1, Main)
  <2>6. x.line = 1 /\ x.path = Main /\ (Misleads(x) \/ (x.k = "marker" /\ Taken(Main)))
    BY <2>5, MarkerIs
  <2> HIDE DEF x
  <2>7. out'[Len(out')] = x /\ Len(out') \in 1 .. Len(out')
    BY <1>1, <2>4 DEF x
  <2> QED BY <2>1, <2>3, <2>4, <2>6, <2>7 DEF Opens, Spoils
<1>4. CASE Include
  <2> DEFINE path == Resolve(Cur.path[1], Here)
             c == Enter(path, cs)
  <2>1. /\ Put(<<Marker(1, path)>>) /\ status' = status /\ status = "running"
        /\ calls' = Append(calls, c)
    BY <1>4 DEF Include, At
  <2>2. calls' \in Seq(Call) /\ calls \in Seq(Call)
    BY <1>4, EntersStep DEF CallInv
  <2> HIDE DEF c
  <2>3. Cur' = c
    <3>1. calls' = Append(calls, c) /\ Len(calls) \in Nat
      BY <2>1, <2>2
    <3>2. Len(calls') = Len(calls) + 1 /\ calls'[Len(calls) + 1] = c
      BY <2>2, <3>1
    <3> QED BY <3>2 DEF Cur, Last
  <2>4. Cur'.path = path /\ Place(Cur') = 1
    BY <2>3 DEF Enter, Place, c
  <2>5. path \in DOMAIN files
    <3>1. Cur.path[1] \in STRING
      BY <2>1, Running
    <3> QED BY <1>4, <3>1, ResolvedExists DEF Include
  <2> HIDE DEF path
  <2> DEFINE x == Marker(1, path)
  <2>6. x.line = 1 /\ x.path = path /\ (Misleads(x) \/ (x.k = "marker" /\ Taken(path)))
    BY <2>5, MarkerIs
  <2> HIDE DEF x
  <2>7. Len(out') = Len(out) + 1 /\ out'[Len(out) + 1] = x
    BY <2>1, PutOne DEF x
  <2>8. out'[Len(out')] = x /\ Len(out') \in 1 .. Len(out')
    BY <1>1, <2>7
  <2> QED BY <2>1, <2>4, <2>6, <2>7, <2>8 DEF Opens, Spoils
<1>5. ASSUME NEW c \in Call, Put(AfterInclude(c)), Cur' = Resumed(c), status' = "running",
             c.path \in DOMAIN files
      PROVE  ComesBack \/ Spoils
  <2> DEFINE x == Marker(c.line + 1, c.path)
             y == Text([c EXCEPT !.included = TRUE], <<>>)
  <2>1. /\ x.line = c.line + 1 /\ x.path = c.path
        /\ Misleads(x) \/ (x.k = "marker" /\ Taken(c.path))
    <3>1. c.line + 1 \in Nat
      BY DEF Call
    <3> QED BY <1>5, <3>1, MarkerIs
  <2>2. /\ y.k = "text" /\ y.path = c.path /\ Place(y) = c.line + 1
        /\ Cur'.path = c.path /\ Place(Cur') = c.line + 2 /\ c.line + 1 \in Nat
    BY <1>5, PlaceOfNext
  <2>3. Put(<<x, y>>)
    BY <1>5 DEF AfterInclude
  <2> HIDE DEF x, y
  <2>4. Len(out') = Len(out) + 2 /\ out'[Len(out) + 1] = x /\ out'[Len(out) + 2] = y
    BY <2>3, PutTwo
  <2>5. c.line + 2 = (c.line + 1) + 1
    BY DEF Call
  <2>6. (Len(out) + 1) + 1 = Len(out) + 2
    BY <1>1
  <2>7. CASE Misleads(x)
    <3>1. Len(out) + 1 \in 1 .. Len(out')
      BY <1>1, <2>4
    <3> QED BY <2>4, <2>7, <3>1 DEF Spoils
  <2>8. CASE x.k = "marker" /\ Taken(c.path)
    BY <1>5, <2>1, <2>2, <2>4, <2>5, <2>6, <2>8 DEF ComesBack
  <2> QED BY <2>1, <2>7, <2>8
<1>6. CASE IncludeTooDeep
  <2>1. /\ status = "running" /\ status' = status /\ Put(AfterInclude(Cur))
        /\ calls' = [calls EXCEPT ![Len(calls)] = Resumed(@)]
    BY <1>6 DEF IncludeTooDeep, At
  <2>2. Cur \in Call /\ Cur = calls[Len(calls)] /\ Len(calls) \in 1 .. Len(calls)
    BY <2>1, Running
  <2>3. Resumed(Cur) \in Call
    BY <2>2, PlaceOfNext
  <2>4. calls' = [calls EXCEPT ![Len(calls)] = Resumed(Cur)]
    BY <2>1, <2>2 DEF Resumed
  <2>5. Cur' = Resumed(Cur)
    BY <2>1, <2>2, <2>3, <2>4, NextCall
  <2>6. Cur.path \in DOMAIN files
    BY <2>1, Running
  <2> QED BY <1>5, <2>1, <2>2, <2>5, <2>6
<1>7. CASE Return
  <2> DEFINE n == Len(calls) - 1
  <2>1. /\ status = "running" /\ status' = status /\ Put(AfterInclude(calls[n]))
        /\ calls' = [Front(calls) EXCEPT ![n] = Resumed(@)] /\ Len(calls) > 1
    BY <1>7 DEF Return
  <2>2. calls \in Seq(Call) /\ calls # <<>> /\ Len(calls) \in Nat \ {0}
    BY <2>1, Running
  <2>3. n \in 1 .. Len(calls) /\ calls[n] \in Call /\ Front(calls)[n] = calls[n]
    BY <2>1, <2>2, FrontFacts
  <2>4. Resumed(calls[n]) \in Call
    BY <2>3, PlaceOfNext
  <2>5. calls' = [Front(calls) EXCEPT ![n] = Resumed(calls[n])]
    BY <2>1, <2>3 DEF Resumed
  <2>6. Cur' = Resumed(calls[n])
    BY <2>1, <2>3, <2>4, <2>5, NextCall
  <2>7. calls[n].path \in DOMAIN files
    BY <2>1, <2>3 DEF CallInv, Chained
  <2> QED BY <1>5, <2>1, <2>3, <2>6, <2>7
<1>8. ASSUME NextLine, status = "running"
      PROVE  Cur'.path = Cur.path /\ Place(Cur') = Place(Cur) + 1 /\ Cur \in Call
  <2>1. Cur \in Call /\ Cur = calls[Len(calls)] /\ Len(calls) \in 1 .. Len(calls)
    BY <1>8, Running
  <2> DEFINE d == [Cur EXCEPT !.line = @ + 1]
  <2>2. d \in Call /\ d.path = Cur.path /\ Place(d) = Place(Cur) + 1
    BY <2>1, PlaceOfNext
  <2>3. calls' = [calls EXCEPT ![Len(calls)] = d]
    BY <1>8, <2>1 DEF NextLine
  <2> HIDE DEF d
  <2>4. Cur' = d
    BY <1>8, <2>1, <2>2, <2>3, NextCall
  <2> QED BY <2>1, <2>2, <2>4
<1>9. ASSUME NEW toks, Put(<<Text(Cur, toks)>>), NextLine, status = "running"
      PROVE  WritesLine
  <2>1. Cur'.path = Cur.path /\ Place(Cur') = Place(Cur) + 1 /\ Cur \in Call
    BY <1>8, <1>9
  <2> DEFINE x == Text(Cur, toks)
  <2>2. x.k = "text" /\ x.path = Cur.path /\ Place(x) = Place(Cur)
    BY <2>1, PlaceOfNext
  <2> HIDE DEF x
  <2>3. Len(out') = Len(out) + 1 /\ out'[Len(out) + 1] = x
    BY <1>9, PutOne DEF x
  <2> QED BY <1>9, <2>1, <2>2, <2>3 DEF WritesLine
<1>10. CASE IncludeFails \/ IncludeSkipped \/ Define \/ Undef \/ IfDirective
              \/ BranchDirective \/ Message \/ TextLine
  <2>1. status = "running" /\ NextLine /\ \E toks : Put(<<Text(Cur, toks)>>)
    BY <1>10, Zenon DEF IncludeFails, IncludeSkipped, Define, Undef, IfDirective,
       BranchDirective, Message, TextLine, Blank, At
  <2> QED BY <1>9, <2>1
<1>11. CASE PassThrough
  <2>1. status = "running" /\ NextLine
    BY <1>11 DEF PassThrough, At
  <2>2. CASE Here.op = "pragma"
    <3>1. Put(<<[k |-> "pragma"]>>)
      BY <1>11, <2>2 DEF PassThrough
    <3>2. Len(out') = Len(out) + 1 /\ out'[Len(out) + 1] = [k |-> "pragma"]
      BY <3>1, PutOne
    <3>3. out'[Len(out')].k = "pragma"
      BY <3>2
    <3>4. Cur'.path = Cur.path /\ Place(Cur') = Place(Cur) + 1
      BY <1>8, <2>1
    <3> QED BY <2>1, <3>2, <3>3, <3>4 DEF WritesLine
  <2>3. CASE Here.op # "pragma"
    <3> DEFINE x == UserMarker(Here.num, Here.path)
    <3>1. Put(<<x>>)
      BY <1>11, <2>3 DEF PassThrough
    <3>2. Misleads(x)
      BY DEF UserMarker, Misleads
    <3> HIDE DEF x
    <3>3. Len(out') = Len(out) + 1 /\ out'[Len(out) + 1] = x
      BY <3>1, PutOne
    <3>4. Len(out) + 1 \in 1 .. Len(out')
      BY <1>1, <3>3
    <3> QED BY <3>2, <3>3, <3>4 DEF Spoils
  <2> QED BY <2>2, <2>3
<1> QED BY <1>2, <1>3, <1>4, <1>6, <1>7, <1>10, <1>11, Zenon DEF Next

LEMMA OutInvStep ==
  ASSUME CallInv, CondTypeOK, OutIsSeq, OutInv, [Next]_vars
  PROVE  OutInv'
<1> SUFFICES ASSUME OnlyOurMarkers'
             PROVE  /\ \A m \in 1 .. Len(out') : out'[m].k = "marker" => Taken(out'[m].path)
                    /\ \A m \in 1 .. Len(out') :
                         out'[m].k = "text" => Told(out', m, out'[m].path, Place(out'[m]))
                    /\ status' = "running" => Told(out', Len(out') + 1, Cur'.path, Place(Cur'))
  BY DEF OutInv, Told, Place
<1> DEFINE n == Len(out)
<1>1. /\ n \in Nat /\ n <= Len(out') /\ DOMAIN out = 1 .. n /\ DOMAIN out' = 1 .. Len(out')
      /\ \A i \in 1 .. n : out'[i] = out[i]
  BY OutGrows
<1>2. OnlyOurMarkers /\ ~Spoils
  <2>1. \A i \in 1 .. Len(out') : ~Misleads(out'[i])
    BY <1>1 DEF OnlyOurMarkers, Misleads
  <2>2. \A i \in 1 .. n : i \in 1 .. Len(out')
    BY <1>1
  <2>3. OnlyOurMarkers
    BY <1>1, <2>1, <2>2 DEF OnlyOurMarkers
  <2> QED BY <2>1, <2>3 DEF Spoils
<1>10. \A m \in 1 .. n : out'[m].k = "marker" => Taken(out'[m].path)
  BY <1>1, <1>2 DEF OutInv
<1>3. \A m \in 1 .. n : out'[m].k = "text" => Told(out', m, out'[m].path, Place(out'[m]))
  <2> SUFFICES ASSUME NEW m \in 1 .. n, out'[m].k = "text"
               PROVE  Told(out', m, out'[m].path, Place(out'[m]))
    OBVIOUS
  <2>1. out'[m] = out[m] /\ Told(out, m, out[m].path, Place(out[m]))
    BY <1>1, <1>2 DEF OutInv
  <2>2. m \in 1 .. n + 1
    OBVIOUS
  <2> HIDE DEF n
  <2> QED BY <1>1, <2>1, <2>2, ToldKept
<1>4. ASSUME status = "running" PROVE Told(out', n + 1, Cur.path, Place(Cur))
  <2>1. Told(out, n + 1, Cur.path, Place(Cur))
    BY <1>2, <1>4 DEF OutInv
  <2>2. n + 1 \in 1 .. n + 1
    BY <1>1
  <2> HIDE DEF n
  <2> QED BY <1>1, <2>1, <2>2, ToldKept
<1>5. n + 1 \in Nat \ {0} /\ n + 2 \in Nat \ {0} /\ (n + 1) + 1 = n + 2
  BY <1>1
<1>6. CASE Opens
  <2>1. /\ Len(out') = n + 1 /\ out'[n + 1].k = "marker" /\ out'[n + 1].line = 1
        /\ out'[n + 1].path = Cur'.path /\ Place(Cur') = 1 /\ Taken(Cur'.path)
    BY <1>6 DEF Opens
  <2>2. Told(out', (n + 1) + 1, Cur'.path, Place(Cur'))
    BY <1>5, <2>1, ToldByMarker
  <2>3. \A m \in 1 .. n + 1 : m \in 1 .. n \/ m = n + 1
    BY <1>1
  <2>4. \A m \in 1 .. Len(out') : out'[m].k = "text" => m \in 1 .. n
    BY <2>1, <2>3
  <2>5. \A m \in 1 .. Len(out') : out'[m].k = "marker" => Taken(out'[m].path)
    BY <1>10, <2>1, <2>3
  <2> QED BY <1>3, <2>1, <2>2, <2>4, <2>5
<1>7. CASE ComesBack
  <2>1. /\ Len(out') = (n + 1) + 1
        /\ out'[n + 1].k = "marker" /\ out'[n + 1].line \in Nat
        /\ out'[(n + 1) + 1].k = "text" /\ out'[(n + 1) + 1].path = out'[n + 1].path
        /\ Place(out'[(n + 1) + 1]) = out'[n + 1].line
        /\ Cur'.path = out'[n + 1].path /\ Place(Cur') = out'[n + 1].line + 1
        /\ Taken(Cur'.path)
    BY <1>7 DEF ComesBack
  <2>2. Told(out', (n + 1) + 1, out'[n + 1].path, out'[n + 1].line)
    BY <1>5, <2>1, ToldByMarker
  <2>3. Told(out', ((n + 1) + 1) + 1, out'[n + 1].path, out'[n + 1].line + 1)
    BY <1>5, <2>1, <2>2, ToldGoesOn
  <2>4. \A m \in 1 .. Len(out') : m \in 1 .. n \/ m = n + 1 \/ m = (n + 1) + 1
    BY <1>1, <2>1
  <2>5. \A m \in 1 .. Len(out') : out'[m].k = "text" =>
          Told(out', m, out'[m].path, Place(out'[m]))
    BY <1>3, <2>1, <2>2, <2>4
  <2>6. \A m \in 1 .. Len(out') : out'[m].k = "marker" => Taken(out'[m].path)
    BY <1>10, <2>1, <2>4
  <2> QED BY <2>1, <2>3, <2>5, <2>6
<1>8. CASE WritesLine
  <2>1. /\ Len(out') = n + 1 /\ status = "running" /\ out'[n + 1].k # "marker"
        /\ out'[n + 1].k = "text" =>
              out'[n + 1].path = Cur.path /\ Place(out'[n + 1]) = Place(Cur)
        /\ Cur'.path = Cur.path /\ Place(Cur') = Place(Cur) + 1
    BY <1>8 DEF WritesLine
  <2>2. Told(out', (n + 1) + 1, Cur'.path, Place(Cur'))
    BY <1>4, <1>5, <2>1, ToldGoesOn
  <2>3. \A m \in 1 .. Len(out') : m \in 1 .. n \/ m = n + 1
    BY <1>1, <2>1
  <2>4. \A m \in 1 .. Len(out') : out'[m].k = "text" =>
          Told(out', m, out'[m].path, Place(out'[m]))
    BY <1>3, <1>4, <2>1, <2>3
  <2>5. \A m \in 1 .. Len(out') : out'[m].k = "marker" => Taken(out'[m].path)
    BY <1>10, <2>1, <2>3
  <2> QED BY <2>1, <2>2, <2>4, <2>5
<1>9. CASE Stops
  <2>1. out' = out /\ (status' = "running" => status = "running" /\ Cur' = Cur)
    BY <1>9 DEF Stops, Cur
  <2> QED BY <1>10, <1>3, <1>4, <2>1
<1> QED BY <1>2, <1>6, <1>7, <1>8, <1>9, StepWrites

-----------------------------------------------------------------------------
(* What the lexer makes of it.                                             *)

NamesKnown == \A i \in 1 .. pos - 1 : out[i].k = "marker" => out[i].path \in interned

(* Nothing is read before the text is there.  If nothing in the output     *)
(* misleads: as long as the table is not full it holds every name read;    *)
(* and as long as it does, the lexer takes the next line to be where the   *)
(* markers put it.                                                         *)
LexInv ==
  /\ pos \in Nat \ {0}
  /\ status # "done" => pos = 1
  /\ IsFiniteSet(interned)
  /\ Cardinality(interned) <= MaxInterned
  /\ OnlyOurMarkers /\ Cardinality(interned) # MaxInterned /\ ~swallowed => NamesKnown
  /\ OnlyOurMarkers /\ ~swallowed /\ NamesKnown =>
       \A path, line : Told(out, pos, path, line) => lexFile = path /\ lexLine = line

LEMMA ToldBefore ==
  ASSUME NEW o, NEW m \in Nat \ {0}, NEW path, NEW line, Told(o, m + 1, path, line)
  PROVE  /\ o[m].k = "marker" => path = o[m].path /\ line = o[m].line
         /\ o[m].k # "marker" => \E before \in Int : line = before + 1 /\ Told(o, m, path, before)
<1>1. PICK k \in 1 .. (m + 1) - 1 :
        /\ o[k].k = "marker" /\ o[k].path = path /\ o[k].line \in Nat
        /\ \A j \in k + 1 .. (m + 1) - 1 : o[j].k # "marker"
        /\ line = o[k].line + ((m + 1) - k - 1)
  BY DEF Told
<1>2. CASE k = m
  BY <1>1, <1>2
<1>3. CASE k # m
  <2> DEFINE before == o[k].line + (m - k - 1)
  <2>1. k \in 1 .. m - 1 /\ m \in k + 1 .. (m + 1) - 1
    BY <1>3
  <2>2. o[m].k # "marker"
    BY <1>1, <2>1
  <2>3. before \in Int /\ line = before + 1
    BY <1>1
  <2>4. \A j \in k + 1 .. m - 1 : o[j].k # "marker"
    BY <1>1
  <2>5. Told(o, m, path, before)
    BY <1>1, <2>1, <2>4 DEF Told
  <2> QED BY <2>2, <2>3, <2>5
<1> QED BY <1>2, <1>3

(* The table never exceeds its size.                                       *)
LEMMA TableKept ==
  ASSUME NEW path, IsFiniteSet(interned), Cardinality(interned) <= MaxInterned
  PROVE  /\ IsFiniteSet(Interned(path)) /\ Cardinality(Interned(path)) <= MaxInterned
         /\ interned \subseteq Interned(path)
         /\ Cardinality(Interned(path)) # MaxInterned =>
              path \in Interned(path) /\ Cardinality(interned) # MaxInterned
<1>1. IsFiniteSet(interned) /\ Cardinality(interned) \in Nat /\ MaxInterned \in Nat
  BY FS_CardinalityType, LineTrackAssumption
<1>2. /\ IsFiniteSet(interned \cup {path})
      /\ Cardinality(interned \cup {path}) <= Cardinality(interned) + 1
  BY <1>1, FS_AddElement
<1>3. Cardinality(interned \cup {path}) \in Nat
  BY <1>2, FS_CardinalityType
<1>4. CASE Cardinality(interned) < MaxInterned
  <2>1. Interned(path) = interned \cup {path}
    BY <1>4 DEF Interned
  <2> QED BY <1>1, <1>2, <1>3, <1>4, <2>1
<1>5. CASE ~(Cardinality(interned) < MaxInterned)
  <2>1. Interned(path) = interned
    BY <1>5 DEF Interned
  <2> QED BY <1>1, <1>5, <2>1
<1> QED BY <1>4, <1>5

LEMMA MarkerObeyed ==
  ASSUME OutIsSeq, OutInv, LexInv, LexMarker, UNCHANGED vars
  PROVE  LexInv'
<1>1. /\ status = "done" /\ status' = status /\ out' = out /\ pos \in Nat \ {0}
      /\ pos' = pos + 1 /\ pos <= Len(out) /\ out[pos].k = "marker"
      /\ lexLine' = out[pos].line /\ swallowed' = swallowed
  BY DEF LexMarker, Reading, vars, ppVars, LexInv
<1> DEFINE p == out[pos].path
<1>2. OnlyOurMarkers => Taken(p)
  BY <1>1 DEF OutInv, OutIsSeq
<1>3. OnlyOurMarkers => interned' = Interned(p) /\ lexFile' = FileAfter(p)
  <2>1. Taken(p) => ~(PathLength(p) >= NameSize)
    BY LineTrackAssumption DEF Taken
  <2> QED BY <1>2, <2>1 DEF LexMarker
<1>4. interned' = Interned(p) \/ interned' = interned
  BY DEF LexMarker
<1>5. IsFiniteSet(interned) /\ Cardinality(interned) <= MaxInterned
  BY DEF LexInv
<1> HIDE DEF p
<1>6. IsFiniteSet(interned') /\ Cardinality(interned') <= MaxInterned
  BY <1>4, <1>5, TableKept
<1>7. OnlyOurMarkers' = OnlyOurMarkers
  BY <1>1 DEF OnlyOurMarkers
<1>8. \A i \in 1 .. pos' - 1 : i \in 1 .. pos - 1 \/ i = pos
  BY <1>1
<1>9. ASSUME OnlyOurMarkers, Cardinality(interned') # MaxInterned, ~swallowed' PROVE NamesKnown'
  <2>1. p \in interned' /\ interned \subseteq interned' /\ Cardinality(interned) # MaxInterned
    BY <1>3, <1>5, <1>9, TableKept
  <2>2. NamesKnown
    BY <1>1, <1>9, <2>1 DEF LexInv
  <2> QED BY <1>1, <1>8, <2>1, <2>2 DEF NamesKnown, p
<1>10. ASSUME OnlyOurMarkers, NamesKnown', NEW path, NEW line, Told(out, pos + 1, path, line)
       PROVE  lexFile' = path /\ lexLine' = line
  <2>1. path = p /\ line = out[pos].line
    BY <1>1, <1>10, ToldBefore DEF p
  <2>2. pos \in 1 .. pos' - 1
    BY <1>1
  <2>3. p \in interned'
    BY <1>1, <1>10, <2>2 DEF NamesKnown, p
  <2>4. lexFile' = p
    BY <1>3, <1>10, <2>3 DEF FileAfter
  <2> QED BY <1>1, <2>1, <2>4
<1>11. \A path, line : OnlyOurMarkers /\ NamesKnown' /\ Told(out', pos', path, line) =>
         lexFile' = path /\ lexLine' = line
  BY <1>1, <1>10
<1>12. pos' \in Nat \ {0} /\ status' = "done"
  BY <1>1
<1> QED BY <1>6, <1>7, <1>9, <1>11, <1>12 DEF LexInv, Told

(* Nothing is claimed of an output with a cut marker.                      *)
LEMMA CutMarkerRead ==
  ASSUME OutIsSeq, LexInv, LexCutMarker, UNCHANGED vars
  PROVE  LexInv'
<1>1. /\ status = "done" /\ status' = status /\ out' = out /\ pos \in Nat \ {0}
      /\ pos <= Len(out) /\ out[pos].k = "cut" /\ Len(out) \in Nat
  BY DEF LexCutMarker, vars, ppVars, LexInv, OutIsSeq
<1>2. ~OnlyOurMarkers'
  <2>1. pos \in DOMAIN out' /\ Misleads(out'[pos])
    BY <1>1 DEF Misleads, OutIsSeq
  <2> QED BY <2>1 DEF OnlyOurMarkers
<1>3. pos' \in Nat \ {0}
  <2>1. PICK n \in pos .. Len(out) : pos' = n + 1
    BY DEF LexCutMarker
  <2> QED BY <1>1, <2>1
<1>4. IsFiniteSet(interned') /\ Cardinality(interned') <= MaxInterned
  <2>1. interned' = interned \/ \E name : interned' = Interned(name)
    BY DEF LexCutMarker
  <2> QED BY <2>1, TableKept DEF LexInv
<1> QED BY <1>1, <1>2, <1>3, <1>4 DEF LexInv

LEMMA LinePassed ==
  ASSUME LexInv, LexMarkerAsText \/ LexLine, UNCHANGED vars
  PROVE  LexInv'
<1>1. /\ status = "done" /\ status' = status /\ out' = out /\ pos \in Nat \ {0}
      /\ pos' = pos + 1 /\ lexLine' = lexLine + 1 /\ lexFile' = lexFile /\ interned' = interned
      /\ ~swallowed' => ~swallowed /\ out[pos].k # "marker"
  BY DEF LexMarkerAsText, LexLine, Reading, vars, ppVars, LexInv
<1>2. pos' \in Nat \ {0} /\ status' = "done"
  BY <1>1
<1>3. ASSUME ~swallowed' PROVE NamesKnown' <=> NamesKnown
  <2>1. \A i : i \in 1 .. pos' - 1 <=> i \in 1 .. pos - 1 \/ i = pos
    BY <1>1
  <2> QED BY <1>1, <1>3, <2>1 DEF NamesKnown
<1>4. ASSUME OnlyOurMarkers, ~swallowed', NamesKnown, NEW path, NEW line, Told(out, pos + 1, path, line)
      PROVE  lexFile' = path /\ lexLine' = line
  <2>1. PICK before \in Int : line = before + 1 /\ Told(out, pos, path, before)
    BY <1>1, <1>4, ToldBefore
  <2>2. lexFile = path /\ lexLine = before
    BY <1>1, <1>4, <2>1 DEF LexInv
  <2> QED BY <1>1, <2>1, <2>2
<1>5. \A path, line : OnlyOurMarkers /\ ~swallowed' /\ NamesKnown' /\ Told(out', pos', path, line) =>
         lexFile' = path /\ lexLine' = line
  BY <1>1, <1>3, <1>4
<1>6. /\ IsFiniteSet(interned') /\ Cardinality(interned') <= MaxInterned
      /\ OnlyOurMarkers /\ Cardinality(interned') # MaxInterned /\ ~swallowed' => NamesKnown'
  BY <1>1, <1>3 DEF LexInv
<1>7. OnlyOurMarkers' = OnlyOurMarkers
  BY <1>1 DEF OnlyOurMarkers
<1> QED BY <1>2, <1>5, <1>6, <1>7 DEF LexInv, Told

LEMMA LexInvStep ==
  ASSUME OutIsSeq, OutInv, LexInv, [TrackNext]_<<vars, lexVars>>
  PROVE  LexInv'
<1>1. CASE Next /\ UNCHANGED lexVars
  <2>1. status # "done"
    BY <1>1 DEF Next, Open, OpenFails, Include, IncludeTooDeep, IncludeFails, IncludeSkipped,
       Return, Finish, Define, Undef, IfDirective, BranchDirective, Message, PassThrough,
       TextLine, At
  <2>2. /\ pos = 1 /\ pos' = 1 /\ interned' = interned
    BY <1>1, <2>1 DEF lexVars, LexInv
  <2>3. NamesKnown' /\ \A path, line : ~Told(out', pos', path, line)
    BY <2>2 DEF NamesKnown, Told
  <2> QED BY <2>2, <2>3 DEF LexInv, Told
<1>2. CASE (LexMarker \/ LexCutMarker \/ LexMarkerAsText \/ LexLine) /\ UNCHANGED vars
  BY <1>2, MarkerObeyed, CutMarkerRead, LinePassed
<1>3. CASE (LexEof /\ UNCHANGED vars) \/ UNCHANGED <<vars, lexVars>>
  <2>1. /\ status' = status /\ out' = out /\ pos' = pos /\ lexLine' = lexLine
        /\ lexFile' = lexFile /\ interned' = interned /\ swallowed' = swallowed
    BY <1>3 DEF LexEof, vars, ppVars, lexVars
  <2> QED BY <2>1 DEF LexInv, NamesKnown, OnlyOurMarkers, Told
<1> QED BY <1>1, <1>2, <1>3 DEF TrackNext

LEMMA TrackInvAlways == TrackSpec => [](OutIsSeq /\ OutInv /\ LexInv)
<1>1. TrackInit => Init /\ OutInv /\ LexInv
  <2> SUFFICES ASSUME TrackInit PROVE Init /\ OutInv /\ LexInv
    OBVIOUS
  <2>1. Init /\ out = <<>> /\ status = "start"
    BY DEF TrackInit, Init, PpInit
  <2>2. OutInv
    BY <2>1 DEF OutInv
  <2>3. pos = 1 /\ interned \in EarlierNames
    BY DEF TrackInit, LexInit
  <2>4. IsFiniteSet(interned) /\ Cardinality(interned) <= MaxInterned
    BY <2>3, LineTrackAssumption
  <2>5. NamesKnown /\ \A path, line : ~Told(out, pos, path, line)
    BY <2>3 DEF NamesKnown, Told
  <2> QED BY <2>1, <2>2, <2>3, <2>4, <2>5 DEF LexInv
<1>2. [TrackNext]_<<vars, lexVars>> => [Next]_vars
  BY DEF TrackNext
<1>3. TrackSpec => Spec
  BY <1>1, <1>2, PTL DEF TrackSpec, Spec
<1>4. LoopInv => CallInv /\ CondTypeOK /\ OutIsSeq
  BY DEF LoopInv, CondInv
<1>5. CallInv /\ CondTypeOK /\ OutIsSeq /\ OutInv /\ [Next]_vars => OutInv'
  BY OutInvStep
<1>6. OutIsSeq /\ OutInv /\ LexInv /\ [TrackNext]_<<vars, lexVars>> => LexInv'
  BY LexInvStep
<1> QED BY <1>1, <1>2, <1>3, <1>4, <1>5, <1>6, LoopInvAlways, PTL DEF TrackSpec

(* As long as no marker was swallowed, written by the script or cut, and   *)
(* the table had room, the lexer knows the file of every line of text and  *)
(* its number up to one, in every file system and at every depth of        *)
(* includes.                                                               *)
THEOREM AttributedUpToOneHolds == TrackSpec => []AttributedUpToOne
<1>1. OutIsSeq /\ OutInv /\ LexInv => AttributedUpToOne
  <2> SUFFICES ASSUME OutIsSeq, OutInv, LexInv, NextText, Undisturbed
               PROVE  lexFile = out[pos].path /\ lexLine = Place(out[pos])
    BY DEF AttributedUpToOne, Place
  <2>1. ~swallowed /\ OnlyOurMarkers /\ NamesKnown
    BY DEF Undisturbed, OnlyOurMarkers, Misleads, NamesKnown
  <2>2. pos \in 1 .. Len(out) /\ out[pos].k = "text"
    BY DEF OutIsSeq, NextText
  <2>3. Told(out, pos, out[pos].path, Place(out[pos]))
    BY <2>1, <2>2 DEF OutInv
  <2> QED BY <2>1, <2>3 DEF LexInv
<1> QED BY <1>1, TrackInvAlways, PTL

(* A wrong file is given only when the table of names is full, the script  *)
(* wrote a marker of its own, a marker of the preprocessor was cut, or a   *)
(* comment or string swallowed one: for every size of the two buffers of   *)
(* which the lexer's is not the smaller one.                               *)
THEOREM WrongFileHasACauseHolds == TrackSpec => []WrongFileHasACause
<1>1. AttributedUpToOne /\ LexInv => WrongFileHasACause
  <2> SUFFICES ASSUME AttributedUpToOne, LexInv, NextText, ~swallowed,
                      lexFile # out[pos].path, Cardinality(interned) # MaxInterned
               PROVE  \E i \in DOMAIN out : Misleads(out[i])
    BY DEF WrongFileHasACause, Misleads
  <2>1. ASSUME OnlyOurMarkers PROVE FALSE
    <3>1. NamesKnown
      BY <2>1 DEF LexInv
    <3>2. Undisturbed
      BY <2>1, <3>1 DEF Undisturbed, OnlyOurMarkers, Misleads, NamesKnown
    <3> QED BY <3>2 DEF AttributedUpToOne
  <2> QED BY <2>1 DEF OnlyOurMarkers
<1> QED BY <1>1, AttributedUpToOneHolds, TrackInvAlways, PTL
=============================================================================
