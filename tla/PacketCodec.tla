------------------------------ MODULE PacketCodec ------------------------------
(***************************************************************************)
(* The two encodings a packet goes through: Socket.IO's, which carries a    *)
(* namespace, an id and data in one line of text, and Engine.IO's, which    *)
(* joins several messages into one payload.                                 *)
(*                                                                          *)
(* A text is a sequence of characters.  JSON is opaque: a value v is        *)
(* written <<"[", v, "]">>, with v for everything between the brackets; the *)
(* arrays and objects that both peers send begin and end with one.  A field *)
(* that may be undefined is <<>> or the sequence of its value.              *)
(***************************************************************************)
EXTENDS Naturals, Sequences, FiniteSetsExt, SequencesExt

Undefined == <<>>

(* The types of a Socket.IO packet, CONNECT to BINARY_ACK, by their digit.  *)
CONNECT == "0"
DISCONNECT == "1"
EVENT == "2"
ACK == "3"
CONNECT_ERROR == "4"
BINARY_EVENT == "5"
BINARY_ACK == "6"
PacketTypes ==
  {CONNECT, DISCONNECT, EVENT, ACK, CONNECT_ERROR, BINARY_EVENT, BINARY_ACK}

Root == <<"/">>

(***************************************************************************)
(* Numbers                                                                  *)
(***************************************************************************)
Digits == <<"0", "1", "2", "3", "4", "5", "6", "7", "8", "9">>
IsDigit(c) == \E i \in DOMAIN Digits : Digits[i] = c

Decimal[n \in Nat] ==
  IF n < 10 THEN <<Digits[n + 1]>>
            ELSE Append(Decimal[n \div 10], Digits[(n % 10) + 1])

(* Number(): undefined unless every character is a digit. *)
Number(text) ==
  IF text # <<>> /\ \A i \in DOMAIN text : IsDigit(text[i])
  THEN <<FoldLeft(LAMBDA n, c : 10 * n + (CHOOSE i \in DOMAIN Digits : Digits[i] = c) - 1,
                  0, text)>>
  ELSE Undefined

(***************************************************************************)
(* JSON                                                                     *)
(***************************************************************************)
Stringify(v) == <<"[", v, "]">>

(* tryParse(): what is no JSON counts as false. *)
TryParse(text) ==
  IF Len(text) = 3 /\ text[1] = "[" /\ text[3] = "]" THEN text[2] ELSE "false"

(***************************************************************************)
(* Socket.IO                                                                *)
(***************************************************************************)
(* "if we have a namespace other than `/` we append it followed by a comma" *)
FaultNamespaceText(nsp) == IF nsp = Root THEN <<>> ELSE nsp
NamespaceText(nsp) == IF nsp = Root THEN <<>> ELSE Append(nsp, ",")

(* encodeAsString().  What it is given is never binary. *)
Encode(p) ==
  <<p.type>> \o NamespaceText(p.nsp)
    \o (IF p.id = Undefined THEN <<>> ELSE Decimal[p.id[1]])
    \o (IF p.data = Undefined THEN <<>> ELSE Stringify(p.data[1]))

Char(text, i) == IF i \in DOMAIN text THEN text[i] ELSE ""

(* The namespace ends before a comma, or before the last character. *)
NamespaceEnd(text) ==
  IF Char(text, 2) = "/"
  THEN Min({i \in 2 .. Len(text) : text[i] = "," \/ i = Len(text)})
  ELSE 1
NamespaceOf(text) ==
  IF Char(text, 2) = "/" THEN SubSeq(text, 2, NamespaceEnd(text) - 1) ELSE Root

(* The digits that follow; the last character of the text is not looked at. *)
FaultIdEnd(text, start) == start
IdEnd(text, start) ==
  Min({i - 1 : i \in {k \in start .. Len(text) - 1 : ~IsDigit(text[k])}}
        \cup {Len(text)})

(* decodeString(): <<packet>>, or Undefined when it throws. *)
Decode(text) ==
  LET after  == NamespaceEnd(text)
      hasId  == IsDigit(Char(text, after + 1))
      rest   == IF hasId THEN IdEnd(text, after + 1) ELSE after
      data   == SubSeq(text, rest + 1, Len(text))
  IN IF \/ Char(text, 1) \notin PacketTypes
        \/ Char(text, 1) = DISCONNECT /\ data # <<>>
     THEN Undefined
     ELSE <<[type |-> text[1],
             nsp  |-> NamespaceOf(text),
             id   |-> IF hasId THEN Number(SubSeq(text, after + 1, rest)) ELSE Undefined,
             data |-> IF data = <<>> THEN Undefined ELSE <<TryParse(data)>>]>>

(***************************************************************************)
(* Engine.IO                                                                *)
(***************************************************************************)
SEPARATOR == "\\x1e"
MESSAGE == "4"
EnginePacketTypes == {"0", "1", "2", "3", MESSAGE, "5", "6"}
ErrorPacket == [type |-> "error", data |-> <<>>]

EncodePacket(p) == <<p.type>> \o p.data
DecodePacket(text) ==
  IF Char(text, 1) \notin EnginePacketTypes
  THEN ErrorPacket
  ELSE [type |-> text[1], data |-> SubSeq(text, 2, Len(text))]

(* encodePayload(): join, without a separator at either end. *)
EncodePayload(packets) ==
  FoldLeft(LAMBDA text, p : IF text = <<>> THEN EncodePacket(p)
                            ELSE text \o <<SEPARATOR>> \o EncodePacket(p),
           <<>>, packets)

(* split: there is always one piece, and one more for every separator. *)
Split(payload) ==
  LET cuts == SetToSortSeq({i \in DOMAIN payload : payload[i] = SEPARATOR}
                             \cup {0, Len(payload) + 1}, <)
  IN [k \in 1 .. Len(cuts) - 1 |-> SubSeq(payload, cuts[k] + 1, cuts[k + 1] - 1)]

(* The elements up to the first of the places given, all when there is none. *)
Through(seq, places) == IF places = {} THEN seq ELSE SubSeq(seq, 1, Min(places))

(* decodePayload(): nothing is decoded after an error packet. *)
DecodePayload(payload) ==
  LET pieces  == Split(payload)
      packets == [i \in DOMAIN pieces |-> DecodePacket(pieces[i])]
  IN Through(packets, {i \in DOMAIN packets : packets[i] = ErrorPacket})
=============================================================================
