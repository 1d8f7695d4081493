----------------------------- MODULE MacroOnMenu -----------------------------
(***************************************************************************)
(* The macro engine in front of a tamagotchi that shows its menu: button 1 *)
(* moves the cursor from icon to icon and back to none.  The tama may be   *)
(* too busy to notice some of the presses, and it lights ATTENTION beside  *)
(* the icon of the menu whenever it likes.  (The ROM is not part of the    *)
(* repository's source: this is the tama the macros are written for.)      *)
(***************************************************************************)
EXTENDS MacroEngine

CONSTANT MAXLOST      \* presses a selection can stand to lose

ASSUME MenuAssumption == MAXLOST \in Nat

Positions == 0..9     \* none, and the icons of the menu

VARIABLES
  cursor,      \* the position of the cursor
  lost,        \* presses missed in this selection, counted up to MAXLOST + 1
  misled       \* "none" was wanted and reached, but ATTENTION was lit

mvars == <<vars, cursor, lost, misled>>

MInit == Init /\ cursor = 0 /\ lost = 0 /\ misled = FALSE

(* What the screen shows with the cursor at p. *)
Lit(p, attention) ==
  {i \in MenuIcons : i = p} \cup (IF attention THEN {ATTENTION} ELSE {})

(* What else is pressed moves the cursor somewhere. *)
Elsewhere ==
  /\ state # "ICONSEL" /\ \E changed \in BOOLEAN : Frame({}, changed)
  /\ cursor' \in IF state' = "ICONSEL" THEN Positions ELSE {cursor}
  /\ lost' = 0 /\ misled' = FALSE

Selecting ==
  /\ state = "ICONSEL"
  /\ \E attention \in BOOLEAN :
       /\ Frame(Lit(cursor, attention), TRUE)
       /\ misled' = (misled \/ (Due /\ attention /\ cursor = 0 /\ Cmd.arg = 0))
  /\ \/ 1 \notin buttons' /\ UNCHANGED <<cursor, lost>>
     \/ 1 \in buttons' /\ cursor' = (cursor + 1) % 10 /\ UNCHANGED lost
     \/ /\ 1 \in buttons' /\ UNCHANGED cursor
        /\ lost' = IF lost <= MAXLOST THEN lost + 1 ELSE lost

MStart == \E m \in DOMAIN macros : MacroRun(m) /\ UNCHANGED <<cursor, lost, misled>>

MNext == MStart \/ Elsewhere \/ Selecting

(* main() comes round once a frame, for ever. *)
MSpec == MInit /\ [][MNext]_mvars /\ WF_mvars(Elsewhere \/ Selecting)

-----------------------------------------------------------------------------
(* The engine's fifteen attempts are enough to go once round the menu of    *)
(* ten positions with MAXLOST presses missed, whenever ATTENTION is lit: a  *)
(* macro does not go on with the wrong icon selected (which would feed the  *)
(* tama instead of cleaning up after it).  The exception is a macro that    *)
(* wants no icon at all and finds ATTENTION lit where the cursor is none.   *)
RightIconSelected ==
  [][state = "ICONSEL" /\ state' = "NEXT" /\ lost <= MAXLOST /\ lost' <= MAXLOST
       => cursor = Cmd.arg \/ misled']_mvars
==============================================================================
