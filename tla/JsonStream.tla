----------------------------- MODULE JsonStream -----------------------------
(***************************************************************************)
(* JsonStringFieldStreamer of examples/shared/json_stream.py decodes one   *)
(* string field out of a JSON answer while it streams, so that the answer  *)
(* can be spoken before it is complete.  The model cuts the answer into    *)
(* deltas and compares with the same answer fed one character at a time.   *)
(*                                                                         *)
(* The characters are those the streamer tells apart: a quote, a letter, a *)
(* colon, a blank, a backslash, the u of a unicode escape and a digit.     *)
(***************************************************************************)
EXTENDS Naturals, Sequences, SequencesExt

CONSTANTS MaxDelta

Chars  == {"quote", "letter", "colon", "blank", "backslash", "u", "digit"}
Needle == <<"quote", "letter", "quote">>  \* the field's name in quotes

VARIABLES streamer, \* the fields of the streamer fed with whole deltas
          single,   \* those of one fed a character at a time
          agree     \* both have emitted the same text

vars == <<streamer, single, agree>>

New == [state |-> "search", buffer |-> <<>>, escaped |-> FALSE,
        left |-> 0, code |-> <<>>, done |-> FALSE]

Init == streamer = New /\ single = New /\ agree = TRUE

-----------------------------------------------------------------------------
LastN(s, n) == SubSeq(s, IF Len(s) > n THEN Len(s) - n + 1 ELSE 1, Len(s))

\* What is kept of a text without the needle: as much as may begin it.
Kept(buffer) == LastN(buffer, Len(Needle))

Blanks(s) == SelectInSeq(s, LAMBDA c : c # "blank")
Stripped(s) == IF Blanks(s) = 0 THEN <<>> ELSE SubSeq(s, Blanks(s), Len(s))

At(s, state, buffer) == [s EXCEPT !.state = state, !.buffer = buffer]

\* Where the needle first occurs, or 0.
Found(s) == SelectInSeq([i \in DOMAIN s |-> IsPrefix(Needle, SubSeq(s, i, Len(s)))], LAMBDA b : b)

\* One branch of the loop of _advance_to_string: past the needle, the colon or the
\* opening quote.  The buffer of an "in_string" result is the text behind that quote.
Advanced(s) ==
    LET found == Found(s.buffer)
        rest  == Stripped(s.buffer)
        wants == IF s.state = "colon" THEN "colon" ELSE "quote"
    IN CASE s.state = "in_string" -> s
         [] s.state = "search" ->
              IF found = 0 THEN At(s, "search", Kept(s.buffer))
              ELSE At(s, "colon", SubSeq(s.buffer, found + Len(Needle), Len(s.buffer)))
         [] rest = <<>> -> At(s, s.state, <<>>)
         [] Head(rest) # wants -> At(s, "search", rest)
         [] s.state = "colon" -> At(s, "quote", Tail(rest))
         [] OTHER -> At(s, "in_string", Tail(rest))

\* _advance_to_string.  What the loop returns is a state that Advanced leaves alone;
\* a branch takes something of the buffer or goes back to the search, which does.
Advance(s) ==
    LET rounds == 2 * Len(s.buffer) + 2
        after[n \in 0..rounds] == IF n = 0 THEN s ELSE Advanced(after[n - 1])
    IN after[rounds]

\* _consume_string_chars, on one character.
Escapes == [c \in Chars |-> <<"escaped", c>>]

Consume(acc, c) ==
    LET s == acc.s
        emits(t, chars) == [s |-> t, out |-> acc.out \o chars]
    IN CASE s.done -> acc
         [] s.left > 1 -> emits([s EXCEPT !.left = @ - 1, !.code = Append(@, c)], <<>>)
         [] s.left = 1 ->
              LET code == Append(s.code, c) IN
              emits([s EXCEPT !.left = 0, !.code = <<>>],
                    IF \A i \in DOMAIN code : code[i] = "digit" THEN <<<<"decoded", code>>>>
                    ELSE <<<<"undecoded", code>>>>)
         [] s.escaped /\ c = "u" -> emits([s EXCEPT !.escaped = FALSE, !.left = 4, !.code = <<>>], <<>>)
         [] s.escaped -> emits([s EXCEPT !.escaped = FALSE], <<Escapes[c]>>)
         [] c = "backslash" -> emits([s EXCEPT !.escaped = TRUE], <<>>)
         [] c = "quote" -> emits([s EXCEPT !.done = TRUE], <<>>)
         [] OTHER -> emits(s, <<<<"plain", c>>>>)

ConsumeAll(s, text) == FoldLeft(Consume, [s |-> s, out |-> <<>>], text)

\* feed
Feed(s, text) ==
    IF s.done THEN [s |-> s, out |-> <<>>]
    ELSE IF s.state = "in_string" THEN ConsumeAll(s, text)
    ELSE LET t == Advance([s EXCEPT !.buffer = @ \o text])
         IN IF t.state = "in_string" THEN ConsumeAll(At(t, "in_string", <<>>), t.buffer)
            ELSE [s |-> t, out |-> <<>>]

FeedEach(s, text) ==
    FoldLeft(LAMBDA acc, c : LET r == Feed(acc.s, <<c>>) IN [s |-> r.s, out |-> acc.out \o r.out],
             [s |-> s, out |-> <<>>], text)

Delta ==
    \E n \in 1..MaxDelta : \E text \in [1..n -> Chars] :
      LET whole == Feed(streamer, text)
          parts == FeedEach(single, text)
      IN /\ streamer' = whole.s /\ single' = parts.s
         /\ agree' = (whole.out = parts.out)

Next == Delta

Spec == Init /\ [][Next]_vars

-----------------------------------------------------------------------------
\* What is decoded does not depend on where the model's answer was cut into deltas:
\* not the text, nor whether the field was found or has ended (feed).
DecodedAlike == agree /\ streamer.state = single.state /\ streamer.done = single.done
=============================================================================
