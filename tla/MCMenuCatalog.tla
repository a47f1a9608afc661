--------------------------- MODULE MCMenuCatalog ----------------------------
(* Instances of MenuCatalog for TLC. *)
EXTENDS MenuCatalog

\* Two categories, whose menus mix in the list.  That of menu 2 comes first in
\* the order of category names.
TwoCategories == [m \in Menus |-> m % 2]

=============================================================================
