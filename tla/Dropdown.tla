------------------------------- MODULE Dropdown -------------------------------
(***************************************************************************)
(* The update part of raygui's GuiDropdownBox: what the mouse does to a    *)
(* dropdown in one frame.  Heights are pixels below the top of the header, *)
(* and a column of rows of Height pixels, Spacing apart, opens under it.   *)
(***************************************************************************)
EXTENDS Integers

CONSTANTS
  Height,    \* bounds.height
  Spacing    \* DROPDOWN_ITEMS_SPACING

ASSUME DropdownAssumption == Height \in Nat \ {0} /\ Spacing \in Nat

(* External (raylib): the left button as IsMouseButtonPressed (the frame it *)
(* goes down) and IsMouseButtonReleased (the frame it comes up) see it.    *)
NextButton ==
  [up |-> {"up", "pressed"}, pressed |-> {"down", "released"},
   down |-> {"down", "released"}, released |-> {"up", "pressed"}]

Buttons == DOMAIN NextButton

Mouse(depths) == [inColumn : BOOLEAN, y : depths, button : Buttons]

Pitch == Height + Spacing

(* External (raylib): a rectangle has its top edge but not its bottom edge. *)
CheckCollisionPointRec(mouse, top, height) ==
  mouse.inColumn /\ top <= mouse.y /\ mouse.y < top + height

OnHeader(mouse) == CheckCollisionPointRec(mouse, 0, Height)

InBoundsOpen(mouse, itemCount) ==
  CheckCollisionPointRec(mouse, 0, (itemCount + 1) * Pitch)

(* Fault, for the mutation runs: the first row lies over the header. *)
FaultRowsFromHeader(mouse, i) ==
  CheckCollisionPointRec(mouse, (i - 1) * Pitch, Height)

OnRow(mouse, i) == CheckCollisionPointRec(mouse, i * Pitch, Height)

(* The items under the mouse; the loop takes the first. *)
Focused(mouse, itemCount) == {i \in 1..itemCount : OnRow(mouse, i)}

First(items) == CHOOSE i \in items : \A j \in items : i <= j

Chosen(mouse, itemCount) ==
  mouse.button = "released" /\ Focused(mouse, itemCount) # {}

(* editMode: the list is open.  active counts from one here. *)
GuiDropdownBox(mouse, itemCount, active, editMode) ==
  LET live  == itemCount > 1
      picks == live /\ editMode /\ Chosen(mouse, itemCount)
  IN  [result |->
         /\ live
         /\ \/ mouse.button = "pressed" /\ OnHeader(mouse)
            \/ /\ editMode
               /\ mouse.button \in {"pressed", "released"}
               /\ ~InBoundsOpen(mouse, itemCount)
            \/ picks,
       active |-> IF picks THEN First(Focused(mouse, itemCount)) ELSE active]
===============================================================================
