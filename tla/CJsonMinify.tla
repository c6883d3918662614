---------------------------- MODULE CJsonMinify ----------------------------
(***************************************************************************)
(* cJSON_Minify of core/cJSON.c.  t ends with the byte 0, and an offset    *)
(* counts from 0.                                                          *)
(***************************************************************************)
EXTENDS JsonItem, FiniteSetsExt

HasByte(t, o, c) == o < Len(t) /\ t[o + 1] = c

\* A comment that starts at o ends at the first of the offsets at which it may.
CommentEnd(t, o, ends) == Min({Len(t) - 1} \cup {p \in ends : p >= o})

\* One turn of the loop of minify_string: a backslash hides a quote that follows it,
\* even if it is hidden itself.  rest[<<o, in>>] is what is made of the text from the
\* offset o on, in a string or not.
MinifyString(t, o, rest) ==
  IF HasByte(t, o, 0) THEN rest[<<o, FALSE>>]
  ELSE IF HasByte(t, o, Quote) THEN <<Quote>> \o rest[<<o + 1, FALSE>>]
  ELSE IF HasByte(t, o, Backslash) /\ HasByte(t, o + 1, Quote)
  THEN <<Backslash, Quote>> \o rest[<<o + 2, TRUE>>]
  ELSE <<t[o + 1]>> \o rest[<<o + 1, TRUE>>]

MinifyAt(t, o, rest) ==
  CASE HasByte(t, o, 0) -> <<>>
    [] t[o + 1] \in {Space, Tab, 13, LF} -> rest[<<o + 1, FALSE>>]
    [] HasByte(t, o, Slash) /\ HasByte(t, o + 1, Slash) ->
         rest[<<CommentEnd(t, o + 3, {p \in 1 .. Len(t) : t[p] = LF}), FALSE>>]
    [] HasByte(t, o, Slash) /\ HasByte(t, o + 1, Star) ->
         rest[<<CommentEnd(t, o + 4, {p \in 2 .. Len(t) : t[p - 1] = Star /\ t[p] = Slash}), FALSE>>]
    [] HasByte(t, o, Slash) /\ ~HasByte(t, o + 1, Slash) /\ ~HasByte(t, o + 1, Star) ->
         rest[<<o + 1, FALSE>>]
    [] HasByte(t, o, Quote) -> <<Quote>> \o rest[<<o + 1, TRUE>>]
    [] OTHER -> <<t[o + 1]>> \o rest[<<o + 1, FALSE>>]

Minify(text) ==
  LET t == Append(text, 0)
      rest[x \in (0 .. Len(text)) \X BOOLEAN] ==
        IF x[2] THEN MinifyString(t, x[1], rest) ELSE MinifyAt(t, x[1], rest)
  IN  rest[<<0, FALSE>>]
=============================================================================
