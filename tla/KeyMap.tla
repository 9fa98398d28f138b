-------------------------------- MODULE KeyMap --------------------------------
(***************************************************************************)
(* Input::keyToMod() and Input::keyToScancode() (ikvm_input.cpp): from the  *)
(* keysym an RFB client sends to a bit of the HID report's modifier byte or *)
(* to a HID usage (scancodes.hpp).  0 stands for none, as in the code.      *)
(***************************************************************************)
EXTENDS Naturals

XK_Shift_L == \hFFE1
XK_Num_Lock == \hFF7F
XK_KP_Equal == \hFFBD

UsageMaximum == 101      \* of the gadget's report descriptor

(* Shift L R, Control L R: FFE1..FFE4; Meta L R, Alt L R: FFE7..FFEA.       *)
shiftCtrlMap == <<\h02, \h20, \h01, \h10>>
metaAltMap == <<\h08, \h80, \h04, \h40>>

KeyToMod(key) ==
    CASE key \in \hFFE1..\hFFE4 -> shiftCtrlMap[key - \hFFE1 + 1]
      [] key \in \hFFE7..\hFFEA -> metaAltMap[key - \hFFE7 + 1]
      [] OTHER -> 0

(* The runs of keysyms that have runs of usages: first, last, first usage.  *)
Runs ==
    { <<\h41, \h5A, \h04>>, <<\h61, \h7A, \h04>>,   \* A-Z, a-z
      <<\h31, \h39, \h1E>>,                         \* 1-9
      <<\hFFBE, \hFFC9, \h3A>>,                     \* F1-F12
      <<\hFF91, \hFF94, \h3A>>,                     \* KP_F1-KP_F4
      <<\hFFB1, \hFFB9, \h59>> }                    \* KP_1-KP_9

(* The cases of the switch: the keysyms of one key, its usage.              *)
Keys101 ==
    { <<{\h21}, \h1E>>, <<{\h40}, \h1F>>, <<{\h23}, \h20>>,  \* ! @ #
      <<{\h24}, \h21>>, <<{\h25}, \h22>>, <<{\h5E}, \h23>>,  \* $ % ^
      <<{\h26}, \h24>>, <<{\h2A}, \h25>>, <<{\h28}, \h26>>,  \* & * (
      <<{\h30, \h29}, \h27>>,                                \* 0 )
      <<{\hFF0D}, \h28>>, <<{\hFF1B}, \h29>>,                \* Return Escape
      <<{\hFF08}, \h2A>>, <<{\hFF09, \hFF89}, \h2B>>,        \* BackSpace Tab
      <<{\h20, \hFF80}, \h2C>>,                              \* space
      <<{\h2D, \h5F}, \h2D>>, <<{\h2B, \h3D}, \h2E>>,        \* - _, + =
      <<{\h5B, \h7B}, \h2F>>, <<{\h5D, \h7D}, \h30>>,        \* [ {, ] }
      <<{\h5C, \h7C}, \h31>>,                                \* backslash bar
      <<{\h3A, \h3B}, \h33>>, <<{\h22, \h27}, \h34>>,        \* : ;, " '
      <<{\h60, \h7E}, \h35>>, <<{\h2C, \h3C}, \h36>>,        \* ` ~, comma <
      <<{\h2E, \h3E}, \h37>>, <<{\h2F, \h3F}, \h38>>,        \* . >, / ?
      <<{\hFFE5}, \h39>>, <<{\hFF61}, \h46>>,                \* Caps Print
      <<{\hFF14}, \h47>>, <<{\hFF13}, \h48>>,                \* Scroll Pause
      <<{\hFF63, \hFF9E}, \h49>>, <<{\hFF50, \hFF95}, \h4A>>, \* Insert Home
      <<{\hFF55, \hFF9A}, \h4B>>, <<{\hFFFF, \hFF9F}, \h4C>>, \* PgUp Delete
      <<{\hFF57, \hFF9C}, \h4D>>, <<{\hFF56, \hFF9B}, \h4E>>, \* End PgDn
      <<{\hFF53, \hFF98}, \h4F>>, <<{\hFF51, \hFF96}, \h50>>, \* Right Left
      <<{\hFF54, \hFF99}, \h51>>, <<{\hFF52, \hFF97}, \h52>>, \* Down Up
      <<{\hFF7F}, \h53>>, <<{\hFF8D}, \h58>>,                \* Num KP_Enter
      <<{\hFFBD}, \h67>>, <<{\hFFAA}, \h55>>,                \* KP = KP *
      <<{\hFFAB}, \h57>>, <<{\hFFAD}, \h56>>,                \* KP + KP -
      <<{\hFFAE}, \h63>>, <<{\hFFAF}, \h54>>,                \* KP . KP /
      <<{\hFFB0}, \h62>>, <<{\h100005C}, \h64>> }            \* KP 0 Intl \

KeyToScancode(key) ==
    LET run == {r \in Runs : key \in r[1]..r[2]}
        keys == {k \in Keys101 : key \in k[1]}
    IN CASE run # {} -> LET r == CHOOSE r \in run : TRUE IN r[3] + (key - r[1])
         [] run = {} /\ keys # {} -> (CHOOSE k \in keys : TRUE)[2]
         [] OTHER -> 0
=============================================================================
