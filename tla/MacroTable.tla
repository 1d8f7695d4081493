----------------------------- MODULE MacroTable -----------------------------
(***************************************************************************)
(* The macros of emu/benevolentai.c: what the player can have done to the  *)
(* tama, as sequences of commands.                                         *)
(***************************************************************************)
P(n) == [op |-> "p", arg |-> n]     \* press button n
W(n) == [op |-> "w", arg |-> n]     \* wait n deciseconds
S(n) == [op |-> "s", arg |-> n]     \* select icon n, 0 for none

macros ==
  [feedmeal     |-> <<S(2), P(2), P(2), P(2), W(90), P(3), P(3)>>,
   feedsnack    |-> <<S(2), P(2), P(1), P(2), P(2), W(90), P(3), P(3)>>,
   train        |-> <<S(6), P(2), P(2), W(40)>>,
   medicine     |-> <<S(7), P(2), W(40)>>,
   loadeep      |-> <<W(10), P(2), P(2), W(20)>>,
   updvars      |-> <<S(1), P(2), W(10), P(1), W(10)>>,
   updexit      |-> <<P(3)>>,
   toilet       |-> <<W(10), S(3), P(2), P(2), W(50)>>,
   toiletpraise |-> <<W(10), S(3), P(2), P(2), W(50), S(6), P(2), P(1), P(2), W(50)>>,
   lightoff     |-> <<P(3), W(20)>>,
   playstb      |-> <<S(4), P(2), P(2), W(90), P(2)>>,
   playjump     |-> <<S(4), P(2), P(2), W(90), P(1), P(2)>>,
   exitgame     |-> <<P(3), W(90)>>,
   stbshoot     |-> <<P(2)>>,
   dojump       |-> <<P(2)>>,
   irgamecl     |-> <<S(8), P(2), P(2), W(1), W(1), P(2)>>,
   irvisitcl    |-> <<S(8), P(2), P(2), P(1), W(1), P(2)>>,
   irgamema     |-> <<S(8), P(2), P(2), W(1), P(2), W(1), P(2)>>,
   irvisitma    |-> <<S(8), P(2), P(2), P(1), P(2), W(1), P(2)>>,
   irgamejmp    |-> <<P(2)>>,
   irfailexit   |-> <<P(3), W(5), P(3), W(5), P(3), W(5), P(3)>>,
   born         |-> <<W(100), P(3), W(20), P(3)>>,
   cuddle       |-> <<S(0), P(3), W(100)>>,
   tst          |-> <<S(8)>>]

NoMacro == "none"
=============================================================================
