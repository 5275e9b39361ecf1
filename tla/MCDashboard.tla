----------------------------- MODULE MCDashboard -----------------------------
(* Dashboard instantiated for TLC. *)
EXTENDS Dashboard, TLC

\* A blank title is NoTitle; one too short, one long enough.
TwoTitles == {[units |-> 2, runes |-> 2], [units |-> 3, runes |-> 3]}

\* With a title that has a character of two units.
OddTitles == TwoTitles \cup {[units |-> 3, runes |-> 2]}

\* A letter in both cases, another letter, and a next-line character (U+0085), which only
\* the server takes for a blank; the two ways to lower them.
Letters  == {"a", "A", "b", "nel"}
Lower    == [x \in Letters |-> IF x = "A" THEN "a" ELSE x]
Trim     == [x \in Letters |-> IF x = "nel" THEN None ELSE x]

\* Blanks alone, a letter with blanks around it, letters, and the next-line character.
Typed == {[text |-> None, padded |-> TRUE], [text |-> "A", padded |-> TRUE],
          [text |-> "a", padded |-> FALSE], [text |-> "b", padded |-> FALSE],
          [text |-> "nel", padded |-> FALSE]}
=============================================================================
