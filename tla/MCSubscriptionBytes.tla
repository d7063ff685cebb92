-------------------------- MODULE MCSubscriptionBytes --------------------------
(***************************************************************************)
(* Constants for SubscriptionBytes: bodies that begin with an              *)
(* acknowledgement or something else, with line breaks of every kind.      *)
(***************************************************************************)
EXTENDS SubscriptionBytes

Breaks == {<<LF>>, <<CR>>, <<CR, LF>>}
Line(symbols, break) == symbols \o break

FrameText(event, data, break) ==
  Line(<<"event:", event>>, break) \o Line(<<"data:", data>>, break) \o break

Opening(break) ==
  {FrameText("subscribed", "x", break), FrameText("match", "x", break),
   Line(<<"event:", "subscribed">>, break) \o break}

Middle(break) ==
  {<< >>, FrameText("match", "y", break), FrameText("ping", "x", break),
   Line(<<":", "x">>, break), Line(<<"data:", "x", "x", "x", "x">>, break)}

(* The break of the acknowledgement and that of the rest: one of each kind, *)
(* and bodies that mix two.                                                *)
Pairs == {<<b, b>> : b \in Breaks} \union {<<<<CR>>, <<LF>>>>, <<<<CR>>, <<CR, LF>>>>}

SomeBodies ==
  UNION {{first \o middle \o FrameText("match", "z", b2) :
            first \in Opening(b1), middle \in Middle(b2)} :
           <<b1, b2>> \in Pairs}
=============================================================================
