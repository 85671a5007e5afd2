---------------------------- MODULE WorkflowDAG -----------------------------
(***************************************************************************)
(* renderWorkflowDAG (console/src/lib/components/WorkflowDAG.js): where    *)
(* the steps of a workflow, and the cards of its child workflows with      *)
(* their own steps, are placed on the canvas.  One pass over the steps,    *)
(* then one over the children, left to right; each iteration is an action. *)
(*                                                                         *)
(* A child is the position of the step that started it (0 if no step is    *)
(* found for it), its number of steps and the length of its title.  Steps  *)
(* are already sorted.  Colours, the texts that are drawn (a title cut to  *)
(* what fits its card among them) and the SVG around them are left out;    *)
(* lengths are in pixels.                                                  *)
(***************************************************************************)
EXTENDS Integers

CONSTANTS MaxSteps,      \* bound on the steps of a workflow
          MaxChildren,   \* bound on its children
          TitleLengths   \* characters of "Child Workflow: <name>"

ASSUME DAGAssumption ==
  MaxSteps \in Nat /\ MaxChildren \in Nat /\ TitleLengths \subseteq Nat

VARIABLES steps,            \* number of steps of the root workflow
          count, children,  \* the children
          pc, i, c,         \* the two loops
          maxX, maxY,       \* the extent so far
          childX, childY,   \* currentChildX, childY
          rootWidth,        \* rootCardWidth
          cards             \* the cards of the children

vars == <<steps, count, children, pc, i, c, maxX, maxY, childX, childY, rootWidth, cards>>
input == <<steps, count, children>>

Maximum(a, b) == IF a > b THEN a ELSE b

nodeWidth == 180
nodeHeight == 62
gapX == 30

hasChildren == count > 0
startX == IF hasChildren THEN 44 ELSE 32
startY == IF hasChildren THEN 74 ELSE 36

Box(x, y, w, h) == [x |-> x, y |-> y, w |-> w, h |-> h]
NoCard == Box(0, 0, 0, 0)

\* The x of the root step at position k, and of step j of a child's card.
StepX(k) == startX + (k - 1) * (nodeWidth + gapX)
ChildStepX(card, j) == card.x + 24 + (j - 1) * (nodeWidth + gapX)

Child == [parent : 0..MaxSteps, steps : 0..MaxSteps, title : TitleLengths]

Init ==
  /\ steps \in 0..MaxSteps
  /\ count \in 0..MaxChildren
  /\ children \in [1..count -> Child]
  /\ \A k \in 1..count : children[k].parent <= steps
  /\ pc = IF steps = 0 /\ ~hasChildren THEN "empty" ELSE "steps"
  /\ i = 0 /\ c = 0
  /\ maxX = startX /\ maxY = startY + nodeHeight
  /\ childX = 24 /\ childY = 0
  /\ rootWidth = 0
  /\ cards = [k \in 1..count |-> NoCard]

\* Seeded fault: one iteration too many.
PlaceStepOnceMore ==
  /\ pc = "steps" /\ i <= steps
  /\ i' = i + 1
  /\ maxX' = Maximum(maxX, StepX(i + 1) + nodeWidth)
  /\ UNCHANGED <<input, pc, c, maxY, childX, childY, rootWidth, cards>>

PlaceStep ==
  /\ pc = "steps" /\ i < steps
  /\ i' = i + 1
  /\ maxX' = Maximum(maxX, StepX(i + 1) + nodeWidth)
  /\ UNCHANGED <<input, pc, c, maxY, childX, childY, rootWidth, cards>>

\* The card around the root steps, drawn only if there are children.
PlaceRootCard ==
  /\ pc = "steps" /\ i = steps
  /\ IF hasChildren
       THEN /\ rootWidth' = Maximum(maxX + startX - 20, 560)
            /\ maxY' = Maximum(maxY, 20 + nodeHeight + 80)
            /\ childY' = maxY' + 60
            /\ pc' = "children"
       ELSE pc' = "done" /\ UNCHANGED <<rootWidth, maxY, childY>>
  /\ UNCHANGED <<input, i, c, maxX, childX, cards>>

\* Math.ceil(titleText.length * 7.5 + 130)
headerNeededWidth(title) == (15 * title + 1) \div 2 + 130

\* Seeded fault: the row of steps is forgotten.
CardWidthOfTitle(child) == Maximum(380, headerNeededWidth(child.title))

childCardWidth(child) ==
  Maximum(Maximum(380, headerNeededWidth(child.title)),
          48 + Maximum(1, child.steps) * (nodeWidth + gapX) - gapX)

childCardHeight(child) == IF child.steps > 0 THEN nodeHeight + 84 ELSE 96

\* Seeded fault: every child is put under its step.
ChildCardXUnderStep(child) ==
  IF child.parent = 0 THEN childX ELSE StepX(child.parent) - 20

\* Under the step that started it, if there is room.
childCardX(child) ==
  IF child.parent = 0 THEN childX ELSE Maximum(childX, StepX(child.parent) - 20)

PlaceChild ==
  /\ pc = "children" /\ c < count
  /\ LET child == children[c + 1]
         card == Box(childCardX(child), childY, childCardWidth(child), childCardHeight(child))
     IN /\ cards' = [cards EXCEPT ![c + 1] = card]
        /\ childX' = card.x + card.w + 40
        /\ maxX' = Maximum(maxX, card.x + card.w)
        /\ maxY' = Maximum(maxY, childY + card.h)
  /\ c' = c + 1
  /\ UNCHANGED <<input, pc, i, childY, rootWidth>>

Finish ==
  /\ pc = "children" /\ c = count
  /\ pc' = "done"
  /\ UNCHANGED <<input, i, c, maxX, maxY, childX, childY, rootWidth, cards>>

\* Seeded fault: the canvas ends where the content does.
CanvasTight == Box(0, 0, Maximum(maxX, 780), Maximum(maxY, 180))

canvas == Box(0, 0, Maximum(maxX + 60, 780), Maximum(maxY + 60, 180))

Next == PlaceStep \/ PlaceRootCard \/ PlaceChild \/ Finish

Spec == Init /\ [][Next]_vars
-----------------------------------------------------------------------------
Boxes == [x : Int, y : Int, w : Int, h : Int]

Inside(a, b) ==
  /\ b.x <= a.x /\ a.x + a.w <= b.x + b.w
  /\ b.y <= a.y /\ a.y + a.h <= b.y + b.h

Apart(a, b) ==
  \/ a.x + a.w < b.x \/ b.x + b.w < a.x
  \/ a.y + a.h < b.y \/ b.y + b.h < a.y

rootCard == Box(16, 20, rootWidth, nodeHeight + 80)
StepBox(k) == Box(StepX(k), startY, nodeWidth, nodeHeight)
ChildStepBox(k, j) == Box(ChildStepX(cards[k], j), cards[k].y + 54, nodeWidth, nodeHeight)

\* The input, the loops and the extents.
DAGTypeOK ==
  /\ steps \in 0..MaxSteps /\ count \in 0..MaxChildren
  /\ children \in [1..count -> Child]
  /\ pc \in {"empty", "steps", "children", "done"}
  /\ i \in 0..steps /\ c \in 0..count
  /\ maxX \in Int /\ maxY \in Int /\ childX \in Int /\ childY \in Int /\ rootWidth \in Int
  /\ cards \in [1..count -> Boxes]

\* No two cards overlap, whichever steps the children hang on: the children
\* are listed in any order, and several may want the same place.
CardsApart ==
  \A k \in 1..c :
    /\ Apart(rootCard, cards[k])
    /\ \A l \in 1..c : k # l => Apart(cards[k], cards[l])

\* Every step lies within the card of its workflow.
StepsInCards ==
  /\ pc \in {"children", "done"} /\ hasChildren =>
       \A k \in 1..steps : Inside(StepBox(k), rootCard)
  /\ \A k \in 1..c : \A j \in 1..children[k].steps : Inside(ChildStepBox(k, j), cards[k])

\* The canvas, computed last, holds everything: cards and steps.
OnCanvas ==
  pc = "done" =>
    /\ hasChildren => Inside(rootCard, canvas)
    /\ \A k \in 1..steps : Inside(StepBox(k), canvas)
    /\ \A k \in 1..count : Inside(cards[k], canvas)
=============================================================================
