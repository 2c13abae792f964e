----------------------------- MODULE TextCodes ------------------------------
(***************************************************************************)
(* util.cpp, texts that stand for bytes and for amounts: EncodeBase64 and  *)
(* DecodeBase64 (the password of an RPC request), EncodeBase32 and         *)
(* DecodeBase32 (onion addresses), FormatMoney and ParseMoney.             *)
(*                                                                         *)
(* A symbol of the alphabet is its value, Pad is '=', and the end of the   *)
(* text is the end of the sequence.  In the text of an amount the digits   *)
(* are themselves.                                                         *)
(***************************************************************************)
EXTENDS Integers, Sequences, SequencesExt

CONSTANTS
  CodeBytes,     \* the bytes encoded
  Most64, Most32,  \* bounds on the bytes of a text
  Decimals,      \* digits of an amount after the point: COIN = 10^Decimals
  MaxWhole,      \* digits before the point that ParseMoney takes (10)
  Amounts        \* the amounts formatted

VARIABLES
  code,          \* "base64", "base32" or "money"
  codeAt,        \* "encode", "text", "decode" or "done"
  textHarm,      \* "none", "cut" or "followed" by another symbol
  vch,           \* what was encoded
  mode, left,    \* the loop variables of the encoder or the decoder
  strRet,        \* the text
  pos,           \* the symbols of it that were decoded
  vchRet,        \* what was decoded
  fInvalid       \* *pfInvalid, or that ParseMoney returned false

codeVars == <<code, codeAt, textHarm, vch, mode, left, strRet, pos, vchRet, fInvalid>>

Pad == 64
Point == 10
Space == 11
Minus == 12

CodeInit ==
  /\ code \in {"base64", "base32", "money"}
  /\ codeAt = "encode" /\ textHarm = "none"
  /\ vch = <<>> /\ mode = 0 /\ left = 0 /\ strRet = <<>>
  /\ pos = 0 /\ vchRet = <<>> /\ fInvalid = FALSE

\* One turn of a coding loop: what is output, and left and mode after it.
Turn(out, keep, next) == [out |-> out, left |-> keep, mode |-> next]

-----------------------------------------------------------------------------
(* Base 64 and base 32 *)

EncodeBase64(enc) ==
  CASE mode = 0 -> Turn(<<enc \div 4>>, (enc % 4) * 16, 1)
    [] mode = 1 -> Turn(<<left + enc \div 16>>, (enc % 16) * 4, 2)
    [] mode = 2 -> Turn(<<left + enc \div 64, enc % 64>>, left, 0)

EncodeBase32(enc) ==
  CASE mode = 0 -> Turn(<<enc \div 8>>, (enc % 8) * 4, 1)
    [] mode = 1 -> Turn(<<left + enc \div 64, (enc \div 2) % 32>>, (enc % 2) * 16, 2)
    [] mode = 2 -> Turn(<<left + enc \div 16>>, (enc % 16) * 2, 3)
    [] mode = 3 -> Turn(<<left + enc \div 128, (enc \div 4) % 32>>, (enc % 4) * 8, 4)
    [] mode = 4 -> Turn(<<left + enc \div 32, enc % 32>>, left, 0)

DecodeBase64(dec) ==
  CASE mode = 0 -> Turn(<<>>, dec, 1)
    [] mode = 1 -> Turn(<<left * 4 + dec \div 16>>, dec % 16, 2)
    [] mode = 2 -> Turn(<<left * 16 + dec \div 4>>, dec % 4, 3)
    [] mode = 3 -> Turn(<<left * 64 + dec>>, left, 0)

DecodeBase32(dec) ==
  CASE mode = 0 -> Turn(<<>>, dec, 1)
    [] mode = 1 -> Turn(<<left * 8 + dec \div 4>>, dec % 4, 2)
    [] mode = 2 -> Turn(<<>>, left * 32 + dec, 3)
    [] mode = 3 -> Turn(<<left * 2 + dec \div 16>>, dec % 16, 4)
    [] mode = 4 -> Turn(<<left * 16 + dec \div 2>>, dec % 2, 5)
    [] mode = 5 -> Turn(<<>>, left * 32 + dec, 6)
    [] mode = 6 -> Turn(<<left * 4 + dec \div 8>>, dec % 8, 7)
    [] mode = 7 -> Turn(<<left * 32 + dec>>, left, 0)

\* The padding the encoder adds in each mode, and the padding the decoder asks for:
\* -1 where no text ends.
Padding64 == <<0, 2, 1>>
Padding32 == <<0, 6, 4, 3, 1>>
Required64 == <<0, -1, 2, 1>>
Required32 == <<0, -1, 6, -1, 4, 3, -1, 1>>

EncodeByte ==
  /\ codeAt = "encode" /\ code # "money"
  /\ Len(vch) < (IF code = "base64" THEN Most64 ELSE Most32)
  /\ \E b \in CodeBytes :
       LET t == IF code = "base64" THEN EncodeBase64(b) ELSE EncodeBase32(b)
       IN  /\ vch' = Append(vch, b)
           /\ strRet' = strRet \o t.out /\ left' = t.left /\ mode' = t.mode
  /\ UNCHANGED <<code, codeAt, textHarm, pos, vchRet, fInvalid>>

\* After the loop: the bits left over, then the padding.
EndText ==
  /\ codeAt = "encode" /\ code # "money"
  /\ strRet' = IF mode = 0 THEN strRet
               ELSE strRet \o <<left>> \o
                    [i \in 1 .. (IF code = "base64" THEN Padding64 ELSE Padding32)[mode + 1] |-> Pad]
  /\ codeAt' = "text" /\ mode' = 0 /\ left' = 0
  /\ UNCHANGED <<code, textHarm, vch, pos, vchRet, fInvalid>>

\* The text reaches the decoder as it was, cut short, or with something after it.
GiveText ==
  /\ codeAt = "text" /\ code # "money"
  /\ \/ UNCHANGED <<strRet, textHarm>>
     \/ /\ \E n \in 0 .. Len(strRet) - 1 : strRet' = SubSeq(strRet, 1, n)
        /\ textHarm' = "cut"
     \/ strRet' = Append(strRet, 0) /\ textHarm' = "followed"
  /\ codeAt' = "decode"
  /\ UNCHANGED <<code, vch, mode, left, pos, vchRet, fInvalid>>

IsSymbol(i) == i <= Len(strRet) /\ strRet[i] # Pad

DecodeChar ==
  /\ codeAt = "decode" /\ IsSymbol(pos + 1)
  /\ LET t == IF code = "base64" THEN DecodeBase64(strRet[pos + 1]) ELSE DecodeBase32(strRet[pos + 1])
     IN  vchRet' = vchRet \o t.out /\ left' = t.left /\ mode' = t.mode
  /\ pos' = pos + 1
  /\ UNCHANGED <<code, codeAt, textHarm, vch, strRet, fInvalid>>

\* Mutated form: what follows the padding is not looked at.
EndUnread(need) ==
  need = -1 \/ (need > 0 /\ (left # 0 \/ \E i \in 1 .. need : pos + i > Len(strRet) \/ strRet[pos + i] # Pad))

\* The switch after the decoding loop.
BadEnd(need) ==
  \/ need = -1
  \/ need > 0 /\ \/ left # 0
                 \/ \E i \in 1 .. need : pos + i > Len(strRet) \/ strRet[pos + i] # Pad
                 \/ IsSymbol(pos + need + 1)

EndDecode ==
  /\ codeAt = "decode" /\ ~IsSymbol(pos + 1)
  /\ fInvalid' = BadEnd((IF code = "base64" THEN Required64 ELSE Required32)[mode + 1])
  /\ codeAt' = "done"
  /\ UNCHANGED <<code, textHarm, vch, mode, left, strRet, pos, vchRet>>

-----------------------------------------------------------------------------
(* Amounts *)

COIN == 10 ^ Decimals
IsDigit(c) == c \in 0 .. 9
DigitsOf(v, n) == [i \in 1 .. n |-> (v \div 10 ^ (n - i)) % 10]
NumberOf(ds) == FoldLeft(LAMBDA v, d : 10 * v + d, 0, ds)

\* The quotient, the point and the remainder; zeros go from the end as long as two
\* digits after the point stay.
FormatMoney(n) ==
  LET abs   == IF n > 0 THEN n ELSE -n
      whole == abs \div COIN
      width == CHOOSE k \in 1 .. MaxWhole : whole < 10 ^ k /\ (k = 1 \/ whole >= 10 ^ (k - 1))
      str   == DigitsOf(whole, width) \o <<Point>> \o DigitsOf(abs % COIN, Decimals)
      Trims(i) == str[i] = 0 /\ IsDigit(str[i - 2])
      last  == CHOOSE i \in 3 .. Len(str) : ~Trims(i) /\ \A j \in i + 1 .. Len(str) : Trims(j)
  IN  (IF n < 0 THEN <<Minus>> ELSE <<>>) \o SubSeq(str, 1, last)

\* The first position from i on where P does not hold.
FirstNot(P(_), s, i) ==
  CHOOSE k \in i .. Len(s) + 1 : (k = Len(s) + 1 \/ ~P(s[k])) /\ \A j \in i .. k - 1 : P(s[j])
IsSpace(c) == c = Space

\* [ok, value]: the digits after the point are read while nMult > 0.
ParseMoney(s) ==
  LET from   == FirstNot(IsSpace, s, 1)
      point  == FirstNot(IsDigit, s, from)
      whole  == SubSeq(s, from, point - 1)
      frac   == IF point <= Len(s) /\ s[point] = Point
                THEN SubSeq(s, point + 1,
                            LET e == FirstNot(IsDigit, s, point + 1) - 1
                            IN  IF e > point + Decimals THEN point + Decimals ELSE e)
                ELSE <<>>
      rest   == IF point <= Len(s) /\ s[point] = Point THEN point + Len(frac) + 1 ELSE point
      units  == NumberOf(frac) * 10 ^ (Decimals - Len(frac))
  IN  IF \/ \E i \in rest .. Len(s) : ~IsSpace(s[i])
         \/ Len(whole) > MaxWhole
         \/ units > COIN
      THEN [ok |-> FALSE, value |-> 0]
      ELSE [ok |-> TRUE, value |-> NumberOf(whole) * COIN + units]

FormatAmount ==
  /\ code = "money" /\ codeAt = "encode"
  /\ \E n \in Amounts : vch' = <<n>> /\ strRet' = FormatMoney(n)
  /\ codeAt' = "text"
  /\ UNCHANGED <<code, textHarm, mode, left, pos, vchRet, fInvalid>>

\* The amount comes back from a user, with spaces around it, or with a digit after it.
ParseText ==
  /\ code = "money" /\ codeAt = "text"
  /\ \E before, after \in {<<>>, <<Space>>}, more \in {<<>>, <<5>>, <<Space, 5>>} :
       LET text == before \o strRet \o more \o after
           r    == ParseMoney(text)
       IN  /\ strRet' = text
           /\ textHarm' = IF more = <<>> THEN "none" ELSE "followed"
           /\ fInvalid' = ~r.ok
           /\ vchRet' = IF r.ok THEN <<r.value>> ELSE <<>>
  /\ codeAt' = "done"
  /\ UNCHANGED <<code, vch, mode, left, pos>>

CodeNext ==
  \/ EncodeByte \/ EndText \/ GiveText \/ DecodeChar \/ EndDecode
  \/ FormatAmount \/ ParseText

-----------------------------------------------------------------------------
Width == IF code = "base64" THEN 6 ELSE 5
Group == IF code = "base64" THEN 4 ELSE 8
BitsOf(v, n) == [i \in 1 .. n |-> (v \div 2 ^ (n - i)) % 2]
Stream(s, n) == FoldLeft(LAMBDA bits, v : bits \o BitsOf(v, n), <<>>, s)

\* The symbols written and the bits kept are at every turn the bits of the bytes.  What
\* was encoded is decoded again, and a text that lost a part of its last group, or that
\* a symbol of the alphabet follows, is reported (a surplus '=' is not: the decoders accept it).
\* An amount that is not negative is parsed back from
\* its own text, spaces or not; a negative one is refused, as is one with more digits
\* than Decimals; a longer text is never taken for the same amount.
CodesExact ==
  /\ codeAt = "encode" /\ code # "money" =>
       Stream(strRet, Width) \o SubSeq(BitsOf(left, Width), 1, (8 * Len(vch)) % Width) = Stream(vch, 8)
  /\ codeAt = "done" /\ code # "money" =>
       CASE textHarm = "none"     -> ~fInvalid /\ vchRet = vch
         [] textHarm = "followed" -> fInvalid
         [] textHarm = "cut"      -> fInvalid \/ (Len(strRet) % Group = 0 /\ IsPrefix(vchRet, vch))
  /\ codeAt = "done" /\ code = "money" =>
       IF textHarm = "none" THEN fInvalid = (vch[1] < 0) /\ (~fInvalid => vchRet = vch)
       ELSE ~fInvalid => vchRet # vch
=============================================================================
