--------------------------- MODULE CJsonRoundTrip ---------------------------
(***************************************************************************)
(* An item is printed without formatting, then with it, and what has been  *)
(* printed is parsed again or minified: core/cJSON.c.                      *)
(***************************************************************************)
EXTENDS CJsonParse, CJsonPrint, CJsonMinify, JsonValue

CONSTANTS
  Values,       \* what is printed
  DefaultSize   \* the size of the buffer whose text is parsed, among Sizes

LargestInt == 2147483647  \* INT_MAX, for numbers

\* Items are as the parser makes them: every member of an object has a key, and a list
\* ends where its last item is.  A number fits in an int.
ASSUME ItemAssumption ==
  /\ Values \subseteq Items /\ Items \subseteq Trees
  /\ \A v \in Values : v.name = NoName
  /\ \A v \in Items :
       /\ v = Named(v.name, [NewItem(v.type, v.kids) EXCEPT !.str = v.str, !.num = v.num])
       /\ v.num \in -LargestInt .. LargestInt
       /\ \A p \in DOMAIN v.kids : v.kids[p].name = NoName <=> v.type = "array"

VARIABLE trip   \* the item, if any, and its texts without formatting that found room

PrintPlain ==
  /\ trip = {}
  /\ \E v \in Values, n \in Sizes :
       PrintItem(v, n, FALSE) /\ trip' = {[v |-> v, plain |-> {}]}
  /\ UNCHANGED parseVars

PrintFormatted ==
  /\ printing = "done" /\ parsing = "idle" /\ ~format
  /\ \E c \in trip :
       /\ PrintItem(c.v, size, TRUE)
       /\ trip' = {[c EXCEPT !.plain = IF bufs["grown"].ok THEN {bufs["grown"].text} ELSE {}]}
  /\ UNCHANGED parseVars

\* A call of the parser with what cJSON_Print has printed.
ParseAgain ==
  /\ printing = "done" /\ parsing = "idle" /\ size = DefaultSize /\ bufs["grown"].ok
  /\ Parse(bufs["grown"].text, TRUE)
  /\ UNCHANGED <<trip, printVars>>

tripVars == <<parseVars, printVars, trip>>
TripInit == ParseInit /\ PrintInit /\ trip = {}
TripNext ==
  \/ PrintPlain \/ PrintFormatted \/ ParseAgain
  \/ PrintStep /\ UNCHANGED <<parseVars, trip>>
  \/ ParseStep /\ UNCHANGED <<printVars, trip>>
TripSpec == TripInit /\ [][TripNext]_tripVars
----------------------------------------------------------------------------
\* How deep the arrays and objects in v are nested.
DepthOf(v) ==
  LET depth[x \in Trees] ==
        IF x.type \notin {"array", "object"} THEN 0
        ELSE 1 + Max({0} \cup {depth[x.kids[p]] : p \in DOMAIN x.kids})
  IN  depth[v]

EndsInBackslash(v) ==
  LET ends[x \in Trees] ==
        \/ \E s \in {x.str, x.name} : s # <<>> /\ s[Len(s)] = Backslash
        \/ \E p \in DOMAIN x.kids : ends[x.kids[p]]
  IN  ends[v]

(***************************************************************************)
(* What is printed, with or without formatting, is parsed to the item that *)
(* was printed, however its strings are escaped; unless it is nested       *)
(* deeper than the parser allows.  cJSON_Minify makes of the formatted     *)
(* text the unformatted one: it takes out all that is blank between the    *)
(* strings and nothing in them.  A string that ends in a backslash is the  *)
(* exception: its closing quote is taken for an escaped one.               *)
(***************************************************************************)
PrintedIsParsed ==
  \A c \in trip :
    /\ parsing = "done" => value = IF DepthOf(c.v) <= NestingLimit THEN c.v ELSE Invalid
    /\ printing = "done" /\ format /\ bufs["grown"].ok /\ ~EndsInBackslash(c.v) =>
         \A text \in c.plain : Minify(bufs["grown"].text) = text
=============================================================================
