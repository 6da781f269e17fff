------------------------- MODULE MCClickThroughRate -------------------------
(***************************************************************************)
(* A menu with a button and a link in it; two selectors find the button.   *)
(* Three instruments are enough for a selector to be stopped and started   *)
(* again while another one runs.                                           *)
(***************************************************************************)
EXTENDS ClickThroughRate

MCElementOf == [menu |-> "m", button |-> "b", unpin |-> "b", link |-> "l"]

MCSelector == DOMAIN MCElementOf

\* ImpressionComes asks of the elements that one selector finds.
MCScrolled == {"m", "l"}

MCEncloses == { <<"m", "m">>, <<"b", "b">>, <<"m", "b">>, <<"l", "l">>, <<"m", "l">> }
=============================================================================
