------------------------------ MODULE IconSwatch ------------------------------
(***************************************************************************)
(* The icon swatch (iconswatch.c): pages of buttons, one for each icon of  *)
(* raygui, and two buttons that turn the page.                             *)
(***************************************************************************)
EXTENDS Integers

CONSTANTS
  PAGE_SIZE,
  RAYGUI_ICON_MAX_ICONS   \* entries of raygui's table of icons

ASSUME SwatchAssumption ==
  /\ PAGE_SIZE \in Nat \ {0}
  /\ RAYGUI_ICON_MAX_ICONS \in Nat /\ 2 * PAGE_SIZE <= RAYGUI_ICON_MAX_ICONS

VARIABLE page   \* 0 or 1

(* What one release of the mouse can hit: an icon, "<", ">" or nothing. *)
SwatchButtons == {"icon", "back", "forward", "none"}

(* The icons a page asks raygui for. *)
Icons(p) == (PAGE_SIZE * p)..(PAGE_SIZE * p + PAGE_SIZE - 1)

InitIcons == page = 0

DrawIconSwatch(button) ==
  page' = CASE button = "back" /\ page = 1    -> page - 1
            [] button = "forward" /\ page = 0 -> page + 1
            [] OTHER                          -> page

===============================================================================
