---------------------------- MODULE PacketHeader ----------------------------
(***************************************************************************)
(* encode_header and decode_header of Common/Packet.h: the text in which   *)
(* the four fields of the header travel, a number of four characters each. *)
(*                                                                         *)
(* decode_header copies every field into an array of four characters,      *)
(* which leaves no room for the NUL that ends a string; atoi goes on with  *)
(* what follows the array in memory.  Where the compiler puts the arrays   *)
(* is open: between other data, or in a row in one of two directions.      *)
(***************************************************************************)
LOCAL INSTANCE Integers
LOCAL INSTANCE Sequences

Width == 4

max_body_length == 512

Blank == -1      \* a space; the other characters are digits

Fields == {"type", "senderId", "reciverId", "body_length"}

Order == <<"type", "senderId", "reciverId", "body_length">>

(* The numbers of the types of packets.                                    *)
MsgNumber(t) ==
  CASE t = "MT_NONE"       -> 0
    [] t = "MT_DISCONNECT" -> 1
    [] t = "MT_SET_ID"     -> 2
    [] t = "MT_SET_NAME"   -> 3
    [] t = "MT_BCAST"      -> 4
    [] t = "MT_UCAST"      -> 5
    [] t = "MT_GET_USERS"  -> 6
    [] t = "MT_GET_GAMES"  -> 7
    [] t = "MT_BEGIN_GAME" -> 8
    [] t = "MT_END_GAME"   -> 9

PowersOfTen == <<1, 10, 100, 1000, 10000, 100000, 1000000, 10000000, 100000000, 1000000000>>

Digits(v) ==
  LET n == CHOOSE k \in 1 .. 10 : /\ k = 1 \/ v >= PowersOfTen[k]
                                  /\ k = 10 \/ v < PowersOfTen[k + 1]
  IN  [i \in 1 .. n |-> (v \div PowersOfTen[n + 1 - i]) % 10]

\* Mutant of Padded: the number is filled up with zeros.
PaddedZero(v) ==
  LET d == Digits(v)
  IN  [i \in 1 .. (IF Len(d) < Width THEN Width - Len(d) ELSE 0) |-> 0] \o d

(* "%4d": at least four characters.                                        *)
Padded(v) ==
  LET d == Digits(v)
  IN  [i \in 1 .. (IF Len(d) < Width THEN Width - Len(d) ELSE 0) |-> Blank] \o d

(* Each sprintf begins where the field does, so it overwrites what was too *)
(* long in the one before.                                                 *)
encode_header(h) == [f \in Fields |-> SubSeq(Padded(h[f]), 1, Width)]

(* The arrays that stand in memory from the array of the i-th field on.    *)
Layout == {"apart", "ascending", "descending"}

Row(i, layout) ==
  CASE layout = "apart"      -> <<Order[i]>>
    [] layout = "ascending"  -> [j \in 1 .. Len(Order) + 1 - i |-> Order[i + j - 1]]
    [] layout = "descending" -> [j \in 1 .. i |-> Order[i + 1 - j]]

(* Their characters, and whatever is no digit behind them.                 *)
InMemory(text, row) ==
  [k \in 1 .. Width * Len(row) |-> text[row[((k - 1) \div Width) + 1]][((k - 1) % Width) + 1]]
    \o <<Blank>>

(* What a number too long for an int gives is undefined; here it is cut.   *)
NumberOf(digits) ==
  LET value[i \in 0 .. Len(digits)] ==
        IF i = 0 THEN 0
        ELSE IF value[i - 1] >= PowersOfTen[9] THEN value[i - 1]
        ELSE 10 * value[i - 1] + digits[i]
  IN  value[Len(digits)]

(* Blanks are skipped, then digits are read up to the first other one.     *)
atoi(s) ==
  LET first == CHOOSE i \in 1 .. Len(s) : s[i] # Blank /\ \A j \in 1 .. i - 1 : s[j] = Blank
      last  == CHOOSE i \in first .. Len(s) : /\ \A j \in first .. i : s[j] # Blank
                                              /\ i = Len(s) \/ s[i + 1] = Blank
  IN  NumberOf(SubSeq(s, first, last))

decode_header(text, layout) ==
  [f \in Fields |->
     atoi(InMemory(text, Row(CHOOSE i \in 1 .. Len(Order) : Order[i] = f, layout)))]

(* What decode_header returns.                                             *)
Accepted(h) == h.body_length <= max_body_length
=============================================================================
