------------------------- MODULE WorkflowDAG_proofs -------------------------
(***************************************************************************)
(* The layout is right for any number of steps and children and any titles.*)
(***************************************************************************)
EXTENDS WorkflowDAG, TLAPS

\* Where the loops stand in each phase.
LoopInv ==
  /\ pc = "empty" => steps = 0 /\ count = 0
  /\ pc = "steps" => c = 0
  /\ pc \in {"children", "done"} => i = steps
  /\ pc = "children" => hasChildren
  /\ pc = "done" => c = count

\* The extent covers the steps placed so far, and so does the root card.
StepsInv ==
  /\ maxX >= startX /\ maxY >= startY + nodeHeight
  /\ \A k \in 1..i : StepX(k) + nodeWidth <= maxX
  /\ pc \in {"children", "done"} /\ hasChildren =>
       /\ rootWidth >= 560
       /\ rootWidth <= maxX + 24 \/ rootWidth = 560
       /\ \A k \in 1..steps : StepX(k) + nodeWidth <= 16 + rootWidth
       /\ maxY >= 20 + nodeHeight + 80
       /\ childY >= 20 + nodeHeight + 80 + 60

\* The cards run from left to right and end before the next one may begin.
CardsInv ==
  /\ childX >= 24
  /\ \A k \in 1..c :
       /\ cards[k].x >= 24 /\ cards[k].y = childY
       /\ cards[k].w = childCardWidth(children[k])
       /\ cards[k].h = childCardHeight(children[k])
       /\ cards[k].x + cards[k].w + 40 <= childX
       /\ cards[k].x + cards[k].w <= maxX
       /\ cards[k].y + cards[k].h <= maxY
       /\ \A l \in 1..c : k < l => cards[k].x + cards[k].w + 40 <= cards[l].x

IndInv == DAGTypeOK /\ LoopInv /\ StepsInv /\ CardsInv

\* The fields of a child.
LEMMA ChildFields ==
  ASSUME NEW child \in Child
  PROVE  child.parent \in Nat /\ child.steps \in Nat /\ child.title \in Nat
<1>1. child.parent \in 0..MaxSteps /\ child.steps \in 0..MaxSteps /\ child.title \in TitleLengths
  BY DEF Child
<1>2. child.title \in Nat
  BY <1>1, DAGAssumption, Zenon
<1>3. child.parent \in Nat /\ child.steps \in Nat
  BY <1>1, DAGAssumption
<1> QED
  BY <1>2, <1>3

\* The larger of two integers.
LEMMA MaximumFacts ==
  ASSUME NEW a \in Int, NEW b \in Int
  PROVE  Maximum(a, b) \in Int /\ Maximum(a, b) >= a /\ Maximum(a, b) >= b
  BY DEF Maximum

\* What a child's card offers its steps.
LEMMA CardSize ==
  ASSUME NEW child \in Child
  PROVE  /\ childCardWidth(child) \in Nat /\ childCardHeight(child) \in Nat
         /\ childCardWidth(child) >= 380
         /\ childCardWidth(child) >= 18 + 210 * child.steps
         /\ childCardHeight(child) >= 96
         /\ child.steps > 0 => childCardHeight(child) = 146
<1>1. child.steps \in Nat /\ child.title \in Nat
  BY ChildFields
<1> DEFINE t == child.title
           n == child.steps
           hd == headerNeededWidth(t)
           row == 48 + Maximum(1, n) * (nodeWidth + gapX) - gapX
<1>2. hd \in Nat
  BY <1>1 DEF headerNeededWidth
<1>3. row \in Nat /\ row >= 18 + 210 * n
  BY <1>1 DEF Maximum, nodeWidth, gapX
<1>4. childCardWidth(child) = Maximum(Maximum(380, hd), row)
  BY DEF childCardWidth
<1>5. childCardHeight(child) = IF n > 0 THEN 146 ELSE 96
  BY DEF childCardHeight, nodeHeight
<1> HIDE DEF hd, row
<1> QED
  BY <1>1, <1>2, <1>3, <1>4, <1>5 DEF Maximum

LEMMA DAGInit == Init => IndInv
<1> SUFFICES ASSUME Init PROVE IndInv
  OBVIOUS
<1> USE DAGAssumption DEF Init, hasChildren, startX, startY, nodeHeight, NoCard, Box
<1>1. DAGTypeOK
  BY DEF DAGTypeOK, Boxes
<1>2. LoopInv /\ StepsInv /\ CardsInv
  BY DEF LoopInv, StepsInv, CardsInv
<1> QED
  BY <1>1, <1>2 DEF IndInv

\* Each iteration keeps the invariant.
LEMMA DAGStep == IndInv /\ [Next]_vars => IndInv'
<1> SUFFICES ASSUME IndInv, [Next]_vars PROVE IndInv'
  OBVIOUS
<1> USE DEF IndInv, DAGTypeOK, hasChildren, startX, startY, nodeWidth, nodeHeight, gapX, StepX
<1>1. CASE PlaceStep
  <2> USE <1>1 DEF PlaceStep, input, Maximum
  <2>1. DAGTypeOK'
    OBVIOUS
  <2>2. LoopInv' /\ StepsInv'
    BY DEF LoopInv, StepsInv
  <2>3. CardsInv'
    BY DEF CardsInv, LoopInv
  <2> QED
    BY <2>1, <2>2, <2>3
<1>2. CASE PlaceRootCard
  <2> USE <1>2 DEF PlaceRootCard, input, Maximum
  <2>1. DAGTypeOK'
    OBVIOUS
  <2>2. LoopInv'
    BY DEF LoopInv
  <2>3. StepsInv'
    BY DEF StepsInv
  <2>4. CardsInv'
    BY DEF CardsInv, LoopInv
  <2> QED
    BY <2>1, <2>2, <2>3, <2>4
<1>3. CASE PlaceChild
  <2> DEFINE child == children[c + 1]
             x == childCardX(child)
             w == childCardWidth(child)
             h == childCardHeight(child)
  <2>1. child \in Child /\ c + 1 \in 1..count
    BY <1>3 DEF PlaceChild
  <2>2. w \in Nat /\ w >= 380 /\ h \in Nat /\ h >= 96
    BY <2>1, CardSize
  <2>3. x \in Int /\ x >= childX
    <3> DEFINE under == StepX(child.parent) - 20
    <3>1. child.parent \in Int
      BY <2>1, ChildFields
    <3>2. under \in Int /\ childX \in Int
      BY <3>1
    <3>3. x = IF child.parent = 0 THEN childX ELSE Maximum(childX, under)
      BY DEF childCardX
    <3> HIDE DEF under
    <3> QED
      BY <3>2, <3>3, MaximumFacts
  <2>4. /\ cards' = [cards EXCEPT ![c + 1] = Box(x, childY, w, h)]
        /\ childX' = x + w + 40
        /\ maxX' = Maximum(maxX, x + w)
        /\ maxY' = Maximum(maxY, childY + h)
        /\ c' = c + 1 /\ pc = "children"
        /\ UNCHANGED <<steps, count, children, pc, i, childY, rootWidth>>
    BY <1>3 DEF PlaceChild, input, Box
  <2> HIDE DEF x, w, h, child
  <2>5. DAGTypeOK'
    BY <2>1, <2>2, <2>3, <2>4 DEF Box, Boxes, Maximum
  <2>6. LoopInv' /\ StepsInv'
    BY <2>1, <2>2, <2>3, <2>4 DEF LoopInv, StepsInv, Maximum
  <2>7. CardsInv'
    <3>1. childX' >= 24
      BY <2>2, <2>3, <2>4 DEF CardsInv
    <3>2. ASSUME NEW k \in 1..c
          PROVE /\ cards'[k] = cards[k] /\ k \in 1..count
                /\ cards[k].x \in Int /\ cards[k].y \in Int /\ cards[k].w \in Int /\ cards[k].h \in Int
      BY <2>1, <2>4 DEF Boxes
    <3>3. cards'[c + 1] = Box(x, childY, w, h)
      BY <2>1, <2>4
    <3>4. ASSUME NEW k \in 1..c' PROVE
            /\ cards'[k].x >= 24 /\ cards'[k].y = childY'
            /\ cards'[k].w = childCardWidth(children[k])
            /\ cards'[k].h = childCardHeight(children[k])
            /\ cards'[k].x + cards'[k].w + 40 <= childX'
            /\ cards'[k].x + cards'[k].w <= maxX'
            /\ cards'[k].y + cards'[k].h <= maxY'
      <4>1. CASE k = c + 1
        <5>1. cards'[k].x = x /\ cards'[k].y = childY /\ cards'[k].w = w /\ cards'[k].h = h
          BY <4>1, <3>3 DEF Box
        <5>2. w = childCardWidth(children[k]) /\ h = childCardHeight(children[k])
          BY <4>1 DEF w, h, child
        <5>3. childX >= 24 /\ childX \in Int /\ maxX \in Int /\ maxY \in Int /\ childY \in Int
          BY DEF CardsInv
        <5>4. maxX' >= x + w /\ maxY' >= childY + h /\ childX' = x + w + 40 /\ childY' = childY
          BY <5>3, <2>2, <2>3, <2>4, MaximumFacts
        <5> QED
          BY <5>1, <5>2, <5>3, <5>4, <2>2, <2>3
      <4>2. CASE k \in 1..c
        <5>1. /\ cards[k].x >= 24 /\ cards[k].y = childY
              /\ cards[k].w = childCardWidth(children[k])
              /\ cards[k].h = childCardHeight(children[k])
              /\ cards[k].x + cards[k].w + 40 <= childX
              /\ cards[k].x + cards[k].w <= maxX
              /\ cards[k].y + cards[k].h <= maxY
          BY <4>2 DEF CardsInv
        <5>2. childX \in Int /\ maxX \in Int /\ maxY \in Int /\ childY \in Int
          OBVIOUS
        <5>3. /\ childX' >= childX + 40 /\ maxX' >= maxX /\ maxY' >= maxY
              /\ childX' \in Int /\ maxX' \in Int /\ maxY' \in Int
              /\ childY' = childY
          BY <5>2, <2>2, <2>3, <2>4, MaximumFacts
        <5>4. /\ cards'[k] = cards[k]
              /\ cards[k].x \in Int /\ cards[k].y \in Int /\ cards[k].w \in Int /\ cards[k].h \in Int
          BY <4>2, <3>2
        <5>5. /\ cards'[k].x >= 24 /\ cards'[k].y = childY'
              /\ cards'[k].w = childCardWidth(children[k])
              /\ cards'[k].h = childCardHeight(children[k])
          BY <5>1, <5>3, <5>4
        <5>6. cards'[k].x + cards'[k].w + 40 <= childX'
          BY <5>1, <5>2, <5>3, <5>4
        <5>7. cards'[k].x + cards'[k].w <= maxX'
          BY <5>1, <5>2, <5>3, <5>4
        <5>8. cards'[k].y + cards'[k].h <= maxY'
          BY <5>1, <5>2, <5>3, <5>4
        <5> QED
          BY <5>5, <5>6, <5>7, <5>8
      <4> QED
        BY <4>1, <4>2, <2>4
    <3>5. ASSUME NEW k \in 1..c', NEW l \in 1..c', k < l
          PROVE cards'[k].x + cards'[k].w + 40 <= cards'[l].x
      <4>1. k \in 1..c
        BY <3>5, <2>4
      <4>2. CASE l = c + 1
        <5>1. cards'[l].x = x
          BY <4>2, <3>3 DEF Box
        <5>2. cards[k].x + cards[k].w + 40 <= childX
          BY <4>1 DEF CardsInv
        <5> QED
          BY <4>1, <5>1, <5>2, <2>3, <3>2
      <4>3. CASE l \in 1..c
        BY <4>1, <4>3, <3>2, <3>5 DEF CardsInv
      <4> QED
        BY <4>2, <4>3, <2>4
    <3>6. /\ \A k \in 1..c' : childCardWidth(children[k])' = childCardWidth(children[k])
          /\ \A k \in 1..c' : childCardHeight(children[k])' = childCardHeight(children[k])
      BY <2>4 DEF childCardWidth, childCardHeight, headerNeededWidth
    <3> QED
      BY <3>1, <3>4, <3>5, <3>6 DEF CardsInv
  <2> QED
    BY <2>5, <2>6, <2>7
<1>4. CASE Finish
  BY <1>4 DEF Finish, input, LoopInv, StepsInv, CardsInv, childCardWidth, childCardHeight, headerNeededWidth
<1>5. CASE UNCHANGED vars
  BY <1>5 DEF vars, LoopInv, StepsInv, CardsInv, childCardWidth, childCardHeight, headerNeededWidth
<1> QED
  BY <1>1, <1>2, <1>3, <1>4, <1>5 DEF Next

\* The facts about one card, for the theorems.
LEMMA OneCard ==
  ASSUME IndInv, NEW k \in 1..c
  PROVE  /\ k \in 1..count
         /\ children[k] \in Child
         /\ cards[k].x \in Int /\ cards[k].y \in Int /\ cards[k].w \in Int /\ cards[k].h \in Int
         /\ cards[k].x >= 24 /\ cards[k].y = childY
         /\ cards[k].w = childCardWidth(children[k])
         /\ cards[k].h = childCardHeight(children[k])
         /\ cards[k].x + cards[k].w <= maxX
         /\ cards[k].y + cards[k].h <= maxY
<1>1. k \in 1..count
  BY DEF IndInv, DAGTypeOK
<1>2. children[k] \in Child /\ cards[k] \in Boxes
  BY <1>1 DEF IndInv, DAGTypeOK
<1> QED
  BY <1>1, <1>2 DEF IndInv, CardsInv, Boxes

LEMMA DAGInductive == Spec => []IndInv
  BY DAGInit, DAGStep, PTL DEF Spec

\* The variables keep their types.
THEOREM DAGTypeCorrect == Spec => []DAGTypeOK
<1>1. IndInv => DAGTypeOK
  BY DEF IndInv
<1> QED
  BY <1>1, DAGInductive, PTL

\* Cards never overlap: the children advance past each other, and all of them
\* lie below the root card.
THEOREM DAGCardsApart == Spec => []CardsApart
<1>1. IndInv => CardsApart
  <2> SUFFICES ASSUME IndInv, NEW k \in 1..c
               PROVE /\ Apart(rootCard, cards[k])
                     /\ \A l \in 1..c : k # l => Apart(cards[k], cards[l])
    BY DEF CardsApart
  <2>1. Apart(rootCard, cards[k])
    <3>1. pc \in {"children", "done"} /\ hasChildren
      BY DEF IndInv, DAGTypeOK, LoopInv, hasChildren
    <3> QED
      BY <3>1, OneCard DEF IndInv, DAGTypeOK, StepsInv, Apart, rootCard, Box, nodeHeight
  <2>2. ASSUME NEW l \in 1..c, k # l PROVE Apart(cards[k], cards[l])
    <3>1. k < l \/ l < k
      BY <2>2
    <3>2. /\ k < l => cards[k].x + cards[k].w + 40 <= cards[l].x
          /\ l < k => cards[l].x + cards[l].w + 40 <= cards[k].x
      BY DEF IndInv, CardsInv
    <3> QED
      BY <3>1, <3>2, OneCard DEF Apart
  <2> QED
    BY <2>1, <2>2
<1> QED
  BY <1>1, DAGInductive, PTL

\* Every step lies within its card.
THEOREM DAGStepsInCards == Spec => []StepsInCards
<1>1. IndInv => StepsInCards
  <2> SUFFICES ASSUME IndInv PROVE StepsInCards
    OBVIOUS
  <2>1. ASSUME pc \in {"children", "done"}, hasChildren, NEW k \in 1..steps
        PROVE Inside(StepBox(k), rootCard)
    BY <2>1, DAGAssumption
    DEF IndInv, DAGTypeOK, StepBox, rootCard, StepsInv, StepX, startX, startY, hasChildren,
        Inside, Box, nodeWidth, nodeHeight, gapX
  <2>2. ASSUME NEW k \in 1..c, NEW j \in 1..children[k].steps
        PROVE Inside(ChildStepBox(k, j), cards[k])
    <3>1. children[k].steps \in Nat /\ cards[k].x \in Int /\ cards[k].y \in Int
      BY OneCard, ChildFields
    <3>2. cards[k].w \in Int /\ cards[k].w >= 18 + 210 * children[k].steps /\ cards[k].h = 146
      BY <3>1, OneCard, CardSize
    <3> QED
      BY <3>1, <3>2 DEF ChildStepBox, ChildStepX, Inside, Box, nodeWidth, nodeHeight, gapX
  <2> QED
    BY <2>1, <2>2 DEF StepsInCards
<1> QED
  BY <1>1, DAGInductive, PTL

\* Nothing is drawn outside the canvas.
THEOREM DAGOnCanvas == Spec => []OnCanvas
<1>1. IndInv => OnCanvas
  <2> SUFFICES ASSUME IndInv, pc = "done"
               PROVE /\ hasChildren => Inside(rootCard, canvas)
                     /\ \A k \in 1..steps : Inside(StepBox(k), canvas)
                     /\ \A k \in 1..count : Inside(cards[k], canvas)
    BY DEF OnCanvas
  <2>0. \A k \in 1..c :
          /\ cards[k].x \in Int /\ cards[k].y \in Int /\ cards[k].w \in Int /\ cards[k].h \in Int
          /\ cards[k].x >= 24 /\ cards[k].y = childY
          /\ cards[k].x + cards[k].w <= maxX /\ cards[k].y + cards[k].h <= maxY
    BY OneCard
  <2>4. /\ maxX \in Int /\ maxY \in Int /\ c = count
        /\ \A k \in 1..count : childY >= 0
    BY DEF IndInv, DAGTypeOK, LoopInv, StepsInv, hasChildren, nodeHeight
  <2>3. ASSUME NEW k \in 1..count PROVE Inside(cards[k], canvas)
    <3> DEFINE b == cards[k]
    <3>1. /\ b.x \in Int /\ b.y \in Int /\ b.w \in Int /\ b.h \in Int
          /\ b.x >= 24 /\ b.y >= 0 /\ b.x + b.w <= maxX /\ b.y + b.h <= maxY
      BY <2>0, <2>4
    <3>2. maxX + 60 <= Maximum(maxX + 60, 780) /\ maxY + 60 <= Maximum(maxY + 60, 180)
      BY <2>4 DEF Maximum
    <3>3. Maximum(maxX + 60, 780) \in Int /\ Maximum(maxY + 60, 180) \in Int
      BY <2>4 DEF Maximum
    <3> HIDE DEF b
    <3>4. Inside(b, canvas)
      BY <3>1, <3>2, <3>3, <2>4 DEF Inside, canvas, Box
    <3> QED
      BY <3>4 DEF b
  <2> USE DEF IndInv, DAGTypeOK, Boxes, Box, Inside, nodeWidth, nodeHeight, gapX, canvas, Maximum, LoopInv
  <2>1. hasChildren => Inside(rootCard, canvas)
    BY DEF rootCard, StepsInv
  <2>2. ASSUME NEW k \in 1..steps PROVE Inside(StepBox(k), canvas)
    BY DEF StepBox, StepsInv, StepX, startX, startY, hasChildren
  <2> QED
    BY <2>1, <2>2, <2>3
<1> QED
  BY <1>1, DAGInductive, PTL
=============================================================================
