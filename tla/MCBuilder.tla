---------------------------- MODULE MCBuilder ----------------------------
(***************************************************************************)
(* Rules with each of the faults Build looks for, and rules that go wrong  *)
(* only beside another one.  A pattern is told by its name.                *)
(***************************************************************************)
EXTENDS Builder

Rule(id, pattern, group, replace, mask, anchors) ==
  [id |-> id, pattern |-> pattern, group |-> group, replace |-> replace,
   mask |-> mask, anchors |-> anchors]

MCCompiles(p) == p # "("
MCGroups(p) == IF p = "pin=(?P<v>d+)" THEN {"v"} ELSE {}
MCMaxMatchLen(p) == IF p \in {"pan", "stars", "loud"} THEN 4 ELSE 0
MCMatches(p, text) == <<p, text>> \in {<<"stars", "****">>, <<"loud", "REDACTED">>}

Pin == Rule("pin", "pin=(?P<v>d+)", "v", "", FALSE, << <<"p", "i">> >>)
Pan == Rule("pan", "pan", "", "", TRUE, << <<"P", "a">>, <<"c">> >>)
Stars == Rule("stars", "stars", "", "", FALSE, << <<"s">> >>)
Loud == Rule("loud", "loud", "", "", FALSE, <<>>)
Mute == Rule("mute", "mute", "", "****", FALSE, << <<"m">> >>)

Faulty == {
  Rule("", "", "", "", FALSE, << <<"n">> >>),
  Rule("broken", "(", "v", "", FALSE, << <<"b">> >>),
  Rule("both", "pan", "", "x", TRUE, << <<"b">>, <<>> >>),
  Rule("long", "tail", "", "", FALSE, << <<"l", "o", "n", "g", "e", "r">> >>) }

MCChoices == {Pin, Pan, Stars, Loud, Mute} \cup Faulty

Option(name, value) == [name |-> name, value |-> value]
AllowAnchorless == Option("WithAllowAnchorless", TRUE)
CaseSensitive == Option("WithCaseSensitiveAnchors", TRUE)
MaxMatches(n) == Option("WithMaxMatches", n)

MCOptions ==
  {AllowAnchorless, CaseSensitive} \cup {MaxMatches(n) : n \in -2 .. 3} \cup
  {Option("WithMarker", text) : text \in {"", "[gone]"}}
MCOptionLists == {
  <<>>,
  <<AllowAnchorless, MaxMatches(-2)>>,
  <<MaxMatches(2), Option("WithMarker", "")>>,
  <<Option("WithMarker", ""), MaxMatches(2), Option("WithMarker", "[gone]"), AllowAnchorless, MaxMatches(0)>>,
  <<CaseSensitive, MaxMatches(0), MaxMatches(3)>>,
  <<CaseSensitive, AllowAnchorless, Option("WithMarker", "[gone]")>> }
MCLower(c) == IF c = "P" THEN "p" ELSE c
=============================================================================
