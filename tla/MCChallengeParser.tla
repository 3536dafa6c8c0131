------------------------- MODULE MCChallengeParser -------------------------
(* Conversations for checking the parsers: every pair of challenges of a   *)
(* small set, of different sizes and with numbers of one to three digits,  *)
(* with and without a line of noise before each; and every text of         *)
(* AnyLength characters.                                                   *)
EXTENDS Parsers

Challenge(cid, size, cellsA, cellsB) ==
  [cid |-> cid, size |-> size, cellsA |-> cellsA, cellsB |-> cellsB]

SmallChallenges ==
  {Challenge(c, 1, <<a>>, <<b>>) : c \in {7, 42}, a, b \in {0, 996}}
    \cup {Challenge(c, 2, <<1, 20, 300, a>>, <<5, 0, 7, 88>>) :
            c \in {7, 10}, a \in {4, 12}}

Pairs == {Conversation(<<x, y>>, noise) :
            x, y \in SmallChallenges, noise \in BOOLEAN}

AnyLength == 8
AnyText == {[text |-> t, challenges |-> <<>>, ends |-> <<>>] :
              t \in [1 .. AnyLength -> {1, Minus, Space, Other}]}

PairsAndAnyText == Pairs \cup AnyText

=============================================================================
