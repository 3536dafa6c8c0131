-------------------------- MODULE ChallengeParser --------------------------
(***************************************************************************)
(* The streaming parser of the current client (ChallengeParser in          *)
(* hftclient2026/main.cpp) and what parserThread does with it: bytes go in *)
(* one at a time, and a challenge is complete as soon as the number of its *)
(* last cell has ended; the parser then takes no byte until the answer has *)
(* been sent and it is reset.  How the bytes are cut into spans makes no   *)
(* difference: feed() keeps nothing between two calls but the fields below.*)
(*                                                                         *)
(* Numbers stay within int: the ids and cells of the servers do.           *)
(***************************************************************************)
EXTENDS Protocol, FiniteSets

CONSTANTS
  kMaxMatrixDim,  \* largest N accepted
  Conversations   \* what a client may receive: any text at all, with no
                  \* challenges, or what Conversation makes of some challenges

ASSUME ConstantsAssumption == kMaxMatrixDim \in Nat \ {0}

\* Any text, or what a server writes for challenges that fit the arrays.
ASSUME ConversationsAssumption ==
  \A conv \in Conversations :
    \/ conv.challenges = <<>> /\ conv.text \in Seq(Chars)
    \/ /\ conv.challenges # <<>>
       /\ Len(conv.challenges) \in Nat
       /\ \A i \in 1 .. Len(conv.challenges) :
            IsChallenge(conv.challenges[i], kMaxMatrixDim)
       /\ \E noise \in BOOLEAN : conv = Conversation(conv.challenges, noise)

VARIABLES
  sent, pos,                \* a conversation, and how many of its characters were fed
  phase, in_number, sign, current_value, a_index, b_index, completed,
  challenge_id, N, A, B,    \* the fields of SharedJob the parser fills
  answered                  \* ghost: the challenges answered, in order

parserVars == <<phase, in_number, sign, current_value, a_index, b_index,
                completed>>
jobVars == <<challenge_id, N, A, B>>
vars == <<sent, pos, parserVars, jobVars, answered>>

kMaxCells == kMaxMatrixDim * kMaxMatrixDim
Cells == 0 .. kMaxCells - 1

Init ==
  /\ sent \in Conversations
  /\ pos = 0
  /\ phase = "ChallengeId"
  /\ in_number = FALSE
  /\ sign = 1
  /\ current_value = 0
  /\ a_index = 0
  /\ b_index = 0
  /\ completed = FALSE
  /\ challenge_id = 0
  /\ N = 0
  /\ A = [c \in Cells |-> 0]
  /\ B = [c \in Cells |-> 0]
  /\ answered = <<>>

-----------------------------------------------------------------------------

NumberEnded ==
  /\ in_number' = FALSE
  /\ sign' = 1
  /\ current_value' = 0

\* reset()
ParserReset ==
  /\ NumberEnded
  /\ phase' = "ChallengeId"
  /\ a_index' = 0
  /\ b_index' = 0
  /\ completed' = FALSE

totalCells == N * N

\* The four cases of the switch in finalizeNumber().
FinalizeId(value) ==
  /\ phase = "ChallengeId"
  /\ NumberEnded
  /\ challenge_id' = value
  /\ phase' = "N"
  /\ UNCHANGED <<a_index, b_index, completed, N, A, B>>

FinalizeN(value) ==
  /\ phase = "N"
  /\ IF value <= 0 \/ value > kMaxMatrixDim
     THEN ParserReset /\ UNCHANGED jobVars
     ELSE /\ NumberEnded
          /\ N' = value
          /\ a_index' = 0
          /\ b_index' = 0
          /\ phase' = "A"
          /\ UNCHANGED <<completed, challenge_id, A, B>>

FinalizeA(value) ==
  /\ phase = "A"
  /\ NumberEnded
  /\ IF a_index < totalCells
     THEN A' = [A EXCEPT ![a_index] = value] /\ a_index' = a_index + 1
     ELSE UNCHANGED <<A, a_index>>
  /\ phase' = IF a_index' = totalCells THEN "B" ELSE "A"
  /\ UNCHANGED <<b_index, completed, challenge_id, N, B>>

\* Mutant: a challenge is complete one cell early.
FinalizeBEarly(value) ==
  /\ phase = "B"
  /\ NumberEnded
  /\ IF b_index < totalCells
     THEN B' = [B EXCEPT ![b_index] = value] /\ b_index' = b_index + 1
     ELSE UNCHANGED <<B, b_index>>
  /\ completed' = (b_index = totalCells - 1 \/ b_index' = totalCells - 1)
  /\ UNCHANGED <<phase, a_index, challenge_id, N, A>>

\* Mutant: a challenge is complete when a number after its last one ends.
FinalizeBLate(value) ==
  /\ phase = "B"
  /\ NumberEnded
  /\ IF b_index < totalCells
     THEN B' = [B EXCEPT ![b_index] = value] /\ b_index' = b_index + 1
     ELSE UNCHANGED <<B, b_index>>
  /\ completed' = (b_index = totalCells)
  /\ UNCHANGED <<phase, a_index, challenge_id, N, A>>

FinalizeB(value) ==
  /\ phase = "B"
  /\ NumberEnded
  /\ IF b_index < totalCells
     THEN B' = [B EXCEPT ![b_index] = value] /\ b_index' = b_index + 1
     ELSE UNCHANGED <<B, b_index>>
  /\ completed' = (b_index' = totalCells)
  /\ UNCHANGED <<phase, a_index, challenge_id, N, A>>

-----------------------------------------------------------------------------
(* processChar(), one action for each of its branches.                     *)

\* feed() takes the next character, unless a challenge is complete.
Feed(c) ==
  /\ ~completed
  /\ pos < Len(sent.text)
  /\ c = sent.text[pos + 1]
  /\ pos' = pos + 1
  /\ UNCHANGED <<sent, answered>>

DigitChar(c) ==
  /\ Feed(c)
  /\ c \in Digit
  /\ in_number' = TRUE
  /\ sign' = IF in_number THEN sign ELSE 1
  /\ current_value' = (IF in_number THEN current_value ELSE 0) * 10 + c
  /\ UNCHANGED <<phase, a_index, b_index, completed, jobVars>>

MinusChar(c) ==
  /\ Feed(c)
  /\ c = Minus /\ ~in_number
  /\ in_number' = TRUE
  /\ sign' = -1
  /\ current_value' = 0
  /\ UNCHANGED <<phase, a_index, b_index, completed, jobVars>>

SpaceChar(c) ==
  /\ Feed(c)
  /\ c = Space
  /\ IF in_number
     THEN LET value == sign * current_value IN
            \/ FinalizeId(value)
            \/ FinalizeN(value)
            \/ FinalizeA(value)
            \/ FinalizeB(value)
     ELSE UNCHANGED <<parserVars, jobVars>>

\* Mutant: what is neither digit nor space is an error the parser stops at.
OtherCharStops(c) ==
  /\ Feed(c)
  /\ c = Other \/ (c = Minus /\ in_number)
  /\ completed' = TRUE
  /\ UNCHANGED <<phase, in_number, sign, current_value, a_index, b_index,
                 jobVars>>

\* Anything else abandons the challenge.
OtherChar(c) ==
  /\ Feed(c)
  /\ c = Other \/ (c = Minus /\ in_number)
  /\ ParserReset
  /\ UNCHANGED jobVars

Job == [challenge_id |-> challenge_id, N |-> N,
        A |-> [c \in 0 .. totalCells - 1 |-> A[c]],
        B |-> [c \in 0 .. totalCells - 1 |-> B[c]]]

\* parserThread answers the completed challenge and resets the parser.
Answer ==
  /\ completed
  /\ answered' = Append(answered, Job)
  /\ ParserReset
  /\ UNCHANGED <<sent, pos, jobVars>>

Next ==
  \/ \E c \in Chars : DigitChar(c) \/ MinusChar(c) \/ SpaceChar(c) \/ OtherChar(c)
  \/ Answer

Spec == Init /\ [][Next]_vars

-----------------------------------------------------------------------------
(* Properties.                                                             *)

Phases == {"ChallengeId", "N", "A", "B"}

\* Every variable has its type.
TypeOK ==
  /\ sent.text \in Seq(Chars)
  /\ pos \in 0 .. Len(sent.text)
  /\ phase \in Phases
  /\ in_number \in BOOLEAN
  /\ sign \in {-1, 1}
  /\ current_value \in Nat
  /\ a_index \in Nat
  /\ b_index \in Nat
  /\ completed \in BOOLEAN
  /\ challenge_id \in Int
  /\ N \in Int
  /\ A \in [Cells -> Int]
  /\ B \in [Cells -> Int]

\* Whatever the stream is, no cell is stored outside the arrays, whose size
\* is fixed once, although the bound tested is the N read from the stream.
InBounds ==
  /\ N \in 0 .. kMaxMatrixDim
  /\ phase = "A" => a_index < totalCells
  /\ phase = "B" /\ ~completed => b_index < totalCells
  /\ totalCells <= kMaxCells

\* The parser waits for cells only when there are cells to wait for: it is
\* complete exactly when the last cell of a challenge has been stored.
CompleteInv ==
  /\ phase \in {"A", "B"} => N > 0
  /\ phase = "A" => b_index = 0
  /\ phase = "B" => a_index = totalCells
  /\ completed <=> phase = "B" /\ b_index = totalCells
  /\ completed => ~in_number

ParserInv == TypeOK /\ InBounds /\ CompleteInv

\* A text with no challenges stands for any bytes at all.
FromServer == sent.challenges # <<>>

\* The challenges answered are those a server sent, in order and with every cell
\* in its place, however large the earlier ones left in the arrays were.
AnswersIntact == FromServer =>
  \A i \in 1 .. Len(answered) :
    i <= Len(sent.challenges) /\ SameChallenge(answered[i], sent.challenges[i])

\* A challenge is complete with the white space that ends its last number: its
\* answer does not wait for what the server sends afterwards.
Prompt ==
  \A i \in 1 .. Len(sent.challenges) :
    pos >= sent.ends[i] => Len(answered) + (IF completed THEN 1 ELSE 0) >= i

=============================================================================
