------------------------------- MODULE JsonTokens ------------------------------
(***************************************************************************)
(* Two ways to read a message: the Display walks the tokens of jsmn        *)
(* (edd_state.c), the Keyboard searches the text (edd_buttons.c).          *)
(*                                                                         *)
(* A text is a sequence of lexemes <<kind, text>>; white space is left out *)
(* and positions count lexemes instead of characters.                      *)
(***************************************************************************)
EXTENDS Integers, Sequences

CONSTANTS
  TokenCount,   \* TOKEN_COUNT
  LooksTrue     \* the primitives that begin with the digit 1 or with true

ASSUME TokenAssumption ==
  /\ TokenCount \in Nat \ {0}
  /\ {"1", "true"} \subseteq LooksTrue
  /\ LooksTrue \cap {"", "0", "2", "4", "8", "false", "null"} = {}

Str(text) == <<"string", text>>
Prim(text) == <<"primitive", text>>
Mark(kind) == <<kind, "">>

-------------------------------------------------------------------------------
\* jsmn_parse: every container, string and primitive in the order of the text,
\* with its end; JSMN_ERROR_NOMEM, here no token at all, when there are more than
\* TokenCount.  JSMN_ERROR_INVAL and JSMN_ERROR_PART need a text that is no JSON
\* or is cut off; the client hands on whole messages only and the server is taken
\* to write JSON.

Opening == {"object", "array"}
Closing == {"endobject", "endarray"}
TokenKinds == Opening \cup {"string", "primitive"}

\* How many containers are open behind each place of a text.
Depth(text) ==
  LET at[p \in 0 .. Len(text)] ==
        IF p = 0 THEN 0
        ELSE IF text[p][1] \in Opening THEN at[p - 1] + 1
        ELSE IF text[p][1] \in Closing THEN at[p - 1] - 1
        ELSE at[p - 1]
  IN  at

MatchingEnd(text, p) ==
  LET d == Depth(text)
  IN  CHOOSE q \in p + 1 .. Len(text) :
        /\ d[q] < d[p]
        /\ \A r \in p + 1 .. q - 1 : d[r] >= d[p]

TokenEnd(text, p) == IF text[p][1] \in Opening THEN MatchingEnd(text, p) + 1 ELSE p + 1

Token(text, p) ==
  [type |-> text[p][1], text |-> text[p][2], start |-> p, end |-> TokenEnd(text, p)]

\* The places where a token begins.
Places(text) ==
  LET upTo[p \in 0 .. Len(text)] ==
        IF p = 0 THEN <<>>
        ELSE IF text[p][1] \in TokenKinds THEN Append(upTo[p - 1], p)
        ELSE upTo[p - 1]
  IN  upTo[Len(text)]

Tokens(text) ==
  LET places == Places(text)
  IN  IF Len(places) > TokenCount THEN <<>>
      ELSE [i \in 1 .. Len(places) |-> Token(text, places[i])]

-------------------------------------------------------------------------------
\* edd_state.c.  Tokens are numbered from 1; NoToken is its -1.

NoToken == 0

\* token_equals
TokenEquals(t, i, text) == t[i].type = "string" /\ t[i].text = text

\* Seeded bug: only one token is skipped, though it may hold others.
SkipTokenOnly(t, i) == i + 1

\* skip_token: the first token that starts behind the end of this one.
SkipToken(t, i) ==
  CHOOSE j \in i + 1 .. Len(t) + 1 :
    /\ j = Len(t) + 1 \/ t[j].start >= t[i].end
    /\ \A k \in i + 1 .. j - 1 : t[k].start < t[i].end

\* array_item, for the item of that ordinal from 0 on.
ArrayItem(t, array, ordinal) ==
  LET item[n \in 0 .. ordinal] ==
        IF n = 0 THEN array + 1
        ELSE IF item[n - 1] = NoToken \/ item[n - 1] > Len(t) THEN NoToken
        ELSE IF t[item[n - 1]].start >= t[array].end THEN NoToken
        ELSE SkipToken(t, item[n - 1])
      last == item[ordinal]
  IN  IF array = NoToken \/ array > Len(t) THEN NoToken
      ELSE IF t[array].type # "array" THEN NoToken
      ELSE IF last # NoToken /\ last <= Len(t) /\ t[last].start < t[array].end
             THEN last ELSE NoToken

\* find_key: the value of the first member with that key.
FindKey(t, object, key) ==
  LET at[i \in 1 .. Len(t) + 1] ==
        IF i + 1 > Len(t) \/ t[i].start >= t[object].end THEN NoToken
        ELSE IF TokenEquals(t, i, key) THEN i + 1
        ELSE at[SkipToken(t, i + 1)]
  IN  IF object = NoToken \/ object > Len(t) THEN NoToken
      ELSE IF t[object].type # "object" THEN NoToken
      ELSE at[object + 1]

\* copy_key and copy_string_key: what the destination holds afterwards.
CopyKey(t, object, key, old) ==
  LET v == FindKey(t, object, key) IN IF v = NoToken THEN old ELSE t[v].text
CopyStringKey(t, object, key, old) ==
  LET v == FindKey(t, object, key)
  IN  IF v = NoToken THEN old ELSE IF t[v].type = "string" THEN t[v].text ELSE old

\* bool_key; the type of the token does not matter.
BoolKey(t, object, key, fallback) ==
  LET v == FindKey(t, object, key)
  IN  IF v = NoToken THEN fallback ELSE t[v].text \in {"true", "1"}

\* atoi, of the numbers that occur; anything else begins with no digit.
Atoi(text) == CASE text = "1" -> 1 [] text = "2" -> 2 [] text = "4" -> 4
                [] text = "8" -> 8 [] text = "10" -> 10 [] OTHER -> 0

\* integer_key
IntegerKey(t, object, key, fallback) ==
  LET v == FindKey(t, object, key) IN IF v = NoToken THEN fallback ELSE Atoi(t[v].text)

-------------------------------------------------------------------------------
\* edd_buttons.c, which searches from the start of the text.

\* find_value: behind the first such string that a colon follows.
FindValue(text, key) ==
  LET found == {p \in 1 .. Len(text) - 2 : text[p] = Str(key) /\ text[p + 1][1] = "colon"}
  IN  IF found = {} THEN NoToken ELSE (CHOOSE p \in found : \A q \in found : p <= q) + 2

\* json_bool, which compares the beginning of the value only.
JsonBool(text, key) ==
  LET v == FindValue(text, key)
  IN  IF v = NoToken THEN FALSE ELSE text[v][1] = "primitive" /\ text[v][2] \in LooksTrue

\* json_string_is
JsonStringIs(text, key, expected) ==
  LET v == FindValue(text, key) IN IF v = NoToken THEN FALSE ELSE text[v] = Str(expected)
===============================================================================
