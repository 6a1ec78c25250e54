------------------------------ MODULE Redaction ------------------------------
(***************************************************************************)
(* _redact_string (redaction.py): the patterns are applied one after the   *)
(* other, each to the result of the one before.  A text is a sequence of    *)
(* tokens with nothing between them; "gap" is a space or other non-word     *)
(* character, "word" any harmless word.  What matters of a token is whether *)
(* it begins and ends with a word character, because most patterns ask for  *)
(* a word boundary, and the replacement "***REDACTED***" provides one.      *)
(***************************************************************************)
EXTENDS Naturals, Sequences, SequencesExt

Pattern(token, left, right) == [token |-> token, left |-> left, right |-> right]

\* _redact_public_ip_matches and then _SECRET_PATTERNS, in order, with the
\* boundaries (\b) each asks for on its left and right.
Patterns == <<Pattern("public_ip", TRUE, TRUE),
              Pattern("wireguard_key", FALSE, FALSE),
              Pattern("quoted_community", FALSE, FALSE),
              Pattern("password", TRUE, TRUE),
              Pattern("token", TRUE, TRUE),
              Pattern("secret", TRUE, TRUE),
              Pattern("private_key", FALSE, TRUE),
              Pattern("api_key", FALSE, TRUE),
              Pattern("certificate", FALSE, FALSE)>>

Secrets == {Patterns[i].token : i \in DOMAIN Patterns}
Harmless == {"word", "leftover", "gap", "private_ip"}
Tokens == Secrets \cup Harmless \cup {"redacted"}

\* Tokens whose last, or first, character is no word character.
EndsOutside == {"gap", "quoted_community", "redacted", "wireguard_key"}
StartsOutside == {"gap", "quoted_community", "redacted"}

\* \b before and after token i of text, which is a word character there.
BoundaryBefore(text, i) == i = 1 \/ text[i - 1] \in EndsOutside
BoundaryAfter(text, i) == i = Len(text) \/ text[i + 1] \in StartsOutside

Matches(pattern, text, i) == /\ text[i] = pattern.token
                             /\ pattern.left => BoundaryBefore(text, i)
                             /\ pattern.right => BoundaryAfter(text, i)

\* A wrong variant: pattern.sub(_REDACTED, result, count=1).
SubstituteFirst(text, pattern) ==
  [i \in DOMAIN text |-> IF /\ Matches(pattern, text, i)
                            /\ \A j \in 1..i - 1 : ~Matches(pattern, text, j)
                         THEN "redacted" ELSE text[i]]

\* pattern.sub(_REDACTED, result)
Substitute(text, pattern) ==
  [i \in DOMAIN text |-> IF Matches(pattern, text, i) THEN "redacted" ELSE text[i]]

Redact(text) == FoldLeft(Substitute, text, Patterns)

-----------------------------------------------------------------------------
\* No secret word touches another word: what the patterns are written for.
Separate(text) == \A i \in DOMAIN text :
                    text[i] \in Secrets => BoundaryBefore(text, i) /\ BoundaryAfter(text, i)

==============================================================================
