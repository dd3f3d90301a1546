------------------------------- MODULE Tokens -------------------------------
(***************************************************************************)
(* The two header values of the RDMA protocol, as they travel: the token   *)
(* that names a range of the client's memory, which the client encodes and *)
(* its peers decode, and the x-amz-rdma-reply value, in which the server   *)
(* may return a token of its own (rdma/token.cpp and s3/control.cpp).      *)
(*                                                                         *)
(* A value goes through HTTP stacks that are not this program's, so it may *)
(* arrive altered: a character replaced, added or lost.                    *)
(***************************************************************************)
EXTENDS Parse

CONSTANTS Width,       \* The bytes of each integer of a token
          RdmaTokens,  \* The tokens that are encoded
          Characters,  \* The characters that stray into a value
          Statuses,    \* The statuses a server replies with
          MaxText,     \* The longest text of a reply that nobody encoded
          NicLens,     \* The sizes of the buffer for a NIC's address
          MaxEdits     \* The most alterations of a value

ASSUME MaxEditsAssumption == MaxEdits \in Nat /\ MaxText \in Nat

VARIABLES pc,      \* Where the value is
          token,   \* The token last encoded, if any
          text,    \* The value
          edits,   \* How often it has been altered
          said,    \* What the server's reply means: a status and a token
          result   \* What was read from the value

vars == <<pc, token, text, edits, said, result>>

kGidLen == 16
kIpv4MappedPrefix == <<0, 0, 0, 0, 0, 0, 0, 0, 0, 0, 255, 255>>
DC == 0
RC == 1

\* The wire layout
Layout == <<"transport", "qpNum", "gid", "rkey", "remoteAddr", "length", "portNum", "lid">>
SizeOf(f) == IF f = "gid" THEN kGidLen ELSE Width[f]
Start == [k \in 1 .. Len(Layout) + 1 |->
             FoldLeft(LAMBDA n, f : n + SizeOf(f), 0, SubSeq(Layout, 1, k - 1))]
kTokenBinaryLen == Start[Len(Layout) + 1]
kRdmaTokenHexLen == 2 * kTokenBinaryLen

isSuccessHttpCode(code) == code \in {200, 204, 206}

\* TokenWriter: an integer, least significant byte first
put(value, width) == [i \in 1 .. width |-> (value \div 256 ^ (i - 1)) % 256]

\* TokenReader: the bytes shifted to their places do not overlap, so that
\* their union is their sum
get(bytes) == FoldRight(LAMBDA b, v : b + 256 * v, bytes, 0)

encodeRdmaTokenHex(t) ==
    LET field(f) == IF f = "gid" THEN t.gid ELSE put(t[f], Width[f])
        buf == FlattenSeq([k \in 1 .. Len(Layout) |-> field(Layout[k])])
    IN  FlattenSeq([k \in 1 .. Len(buf) |->
            <<kHexDigits[(buf[k] \div 16) + 1], kHexDigits[(buf[k] % 16) + 1]>>])

\* The token in the binary form buf
Read(buf) ==
    LET bytes(k) == SubSeq(buf, Start[k] + 1, Start[k + 1])
    IN  [f \in ToSet(Layout) |->
            LET k == CHOOSE n \in 1 .. Len(Layout) : Layout[n] = f
            IN  IF f = "gid" THEN bytes(k) ELSE get(bytes(k))]

\* Mutant of decodeRdmaTokenHex: reads the digits it needs, whatever follows
decodeRdmaTokenHexPrefix(hex) ==
    LET byte(k) == parseNumber(SubSeq(hex, 2 * k - 1, 2 * k), 16, 255)
    IN  IF Len(hex) < kRdmaTokenHexLen \/ \E k \in 1 .. kTokenBinaryLen : byte(k) = {}
        THEN {}
        ELSE {t \in {Read([k \in 1 .. kTokenBinaryLen |-> CHOOSE b \in byte(k) : TRUE])} :
                t.transport \in {DC, RC}}

decodeRdmaTokenHex(hex) ==
    LET byte(k) == parseNumber(SubSeq(hex, 2 * k - 1, 2 * k), 16, 255)
    IN  IF Len(hex) # kRdmaTokenHexLen \/ \E k \in 1 .. kTokenBinaryLen : byte(k) = {}
        THEN {}
        ELSE {t \in {Read([k \in 1 .. kTokenBinaryLen |-> CHOOSE b \in byte(k) : TRUE])} :
                t.transport \in {DC, RC}}

\* The decimal form of a number below 1000
Decimal(n) ==
    LET digits == <<n \div 100, (n \div 10) % 10, n % 10>>
        first == IF n < 10 THEN 3 ELSE IF n < 100 THEN 2 ELSE 1
    IN  [k \in 1 .. 4 - first |-> kHexDigits[digits[k + first - 1] + 1]]

isIpv4MappedGid(gid) == SubSeq(gid, 1, 12) = kIpv4MappedPrefix

DottedQuad(gid) ==
    Decimal(gid[13]) \o <<".">> \o Decimal(gid[14]) \o <<".">> \o Decimal(gid[15]) \o <<".">>
        \o Decimal(gid[16])


\* Whether it succeeds, and the address it writes, which is none when nicIp
\* is left empty
parseClientNicFromTokenHex(hex, nicLen) ==
    LET ts == decodeRdmaTokenHex(hex)
        ip == {DottedQuad(t.gid) : t \in {t \in ts : isIpv4MappedGid(t.gid)}}
        fits == \A a \in ip : Len(a) < nicLen
    IN  [ok |-> ts # {} /\ fits, nicIp |-> IF fits THEN ip ELSE {}]

Trailing == {"NUL", "LF", "CR"}


Strip(reply) == SubSeq(reply, 1, SelectLastInSeq(reply, LAMBDA c : c \notin Trailing))

Reply(code, tokens) == [httpCode |-> code, peerToken |-> tokens]

\* Mutant of parseReply: leaves it to the number to be in range
parseReplyAnyLength(reply) ==
    LET value == Strip(reply)
        colon == SelectInSeq(value, LAMBDA c : c = ":")
        status == IF colon = 0 THEN value ELSE SubSeq(value, 1, colon - 1)
        code == {n \in parseNumber(status, 10, 2147483647) : n \in 100 .. 599}
        peer == decodeRdmaTokenHex(SubSeq(value, Len(status) + 2, Len(value)))
    IN  IF value = <<"o", "k">> THEN {Reply(200, {})}
        ELSE IF value = <<"e", "r", "r">> THEN {Reply(-1, {})}
        ELSE IF colon = 0 THEN {Reply(n, {}) : n \in code}
        ELSE {Reply(n, {t}) : n \in code \cap {200}, t \in peer}

\* A value of one of the forms "ok", "err", a status of three digits, and
\* "200:" and a token
parseReply(reply) ==
    LET value == Strip(reply)
        colon == SelectInSeq(value, LAMBDA c : c = ":")
        status == IF colon = 0 THEN value ELSE SubSeq(value, 1, colon - 1)
        code == {n \in parseNumber(status, 10, 999) : Len(status) = 3 /\ n \in 100 .. 599}
        peer == decodeRdmaTokenHex(SubSeq(value, Len(status) + 2, Len(value)))
    IN  IF value = <<"o", "k">> THEN {Reply(200, {})}
        ELSE IF value = <<"e", "r", "r">> THEN {Reply(-1, {})}
        ELSE IF colon = 0 THEN {Reply(n, {}) : n \in code}
        ELSE {Reply(n, {t}) : n \in code \cap {200}, t \in peer}

HIPOBJ_RDMA_REPLY_NOT_IMPLEMENTED == 501

decodeRdmaReply(reply) ==
    {IF r.httpCode = HIPOBJ_RDMA_REPLY_NOT_IMPLEMENTED THEN "NotSupported"
     ELSE IF isSuccessHttpCode(r.httpCode) THEN "Success" ELSE "Failed" : r \in parseReply(reply)}

parsePeerTokenFromReply(reply) == UNION {r.peerToken : r \in parseReply(reply)}

encodeReplyWithPeerToken(code, t) == Decimal(code) \o <<":">> \o encodeRdmaTokenHex(t)

\* The room a transfer gives recvReply(): 512 bytes, for values of at most 92
kReplyBufLen == 5 * kRdmaTokenHexLen

(***************************************************************************)
(* A value's way                                                           *)
(***************************************************************************)
Nothing == [httpCode |-> 0, peerToken |-> {}]

Init ==
    /\ pc = "idle"
    /\ token = {} /\ text = <<>> /\ edits = 0
    /\ said = Nothing /\ result = {}

\* runRdmaTransfer() and hipObjGetRdmaToken() encode a token, and the request
\* carries it
SendToken ==
    /\ pc = "idle" /\ pc' = "request"
    /\ \E t \in RdmaTokens : token' = {t} /\ text' = encodeRdmaTokenHex(t)
    /\ UNCHANGED <<edits, said, result>>

\* A server replies with a status, with or without a token of its own and
\* an end of line
SendReply ==
    /\ pc = "idle" /\ pc' = "reply"
    /\ \E tail \in {<<>>, <<"CR", "LF">>, <<"NUL">>} :
        \/ \E t \in RdmaTokens, code \in Statuses :
            /\ text' = encodeReplyWithPeerToken(code, t) \o tail
            /\ token' = {t} /\ said' = Reply(code, {t})
        \/ \E code \in Statuses :
            /\ text' = Decimal(code) \o tail
            /\ said' = Reply(code, {}) /\ UNCHANGED token
        \/ /\ text' = <<"o", "k">> \o tail
           /\ said' = Reply(200, {}) /\ UNCHANGED token
        \/ /\ text' = <<"e", "r", "r">> \o tail
           /\ said' = Reply(-1, {}) /\ UNCHANGED token
    /\ UNCHANGED <<edits, result>>

\* A peer that does not follow the protocol sends any text
SendText ==
    /\ pc = "idle" /\ pc' \in {"request", "reply"}
    /\ text' \in BoundedSeq(Characters, MaxText)
    /\ edits' = MaxEdits + 1
    /\ UNCHANGED <<token, said, result>>

Alter ==
    /\ pc \in {"request", "reply"} /\ edits < MaxEdits
    /\ edits' = edits + 1
    /\ \/ \E k \in 1 .. Len(text), c \in Characters : text' = [text EXCEPT ![k] = c]
       \/ \E c \in Characters : text' = Append(text, c)
       \/ text # <<>> /\ text' = Front(text)
    /\ UNCHANGED <<pc, token, said, result>>

Decode ==
    /\ pc = "request" /\ pc' = "decoded"
    /\ result' = decodeRdmaTokenHex(text)
    /\ UNCHANGED <<token, text, edits, said>>

hipObjTokenClientNic(nicLen) ==
    /\ pc = "request" /\ pc' = "nic"
    /\ result' = {[nicLen |-> nicLen, nic |-> parseClientNicFromTokenHex(text, nicLen)]}
    /\ UNCHANGED <<token, text, edits, said>>

\* The reply arrives through the application's recvReply(), which may fail;
\* the transfer then takes the peer's token from the same text
receiveRdmaReplyRaw ==
    /\ pc = "reply" /\ pc' \in {"received", "failed"}
    /\ result' = IF pc' = "failed" \/ Len(text) > kReplyBufLen THEN {}
                 ELSE {[status |-> s, peer |-> parsePeerTokenFromReply(text)] :
                         s \in decodeRdmaReply(text)}
    /\ UNCHANGED <<token, text, edits, said>>

\* An application that moves its own requests asks for the status
hipObjParseRdmaReply ==
    /\ pc = "reply" /\ pc' = "parsed"
    /\ result' = {r.httpCode : r \in parseReply(text)}
    /\ UNCHANGED <<token, text, edits, said>>

Next ==
    \/ SendToken \/ SendReply \/ SendText \/ Alter \/ Decode
    \/ \E nicLen \in NicLens : hipObjTokenClientNic(nicLen)
    \/ receiveRdmaReplyRaw \/ hipObjParseRdmaReply

Spec == Init /\ [][Next]_vars

(***************************************************************************)
(* Properties                                                              *)
(***************************************************************************)
Lower(c) == IF DigitValues(c, 16) = {} THEN c ELSE kHexDigits[(CHOOSE d \in DigitValues(c, 16) : TRUE) + 1]

\* Nothing but the encoding of a token decodes to it, in either case of the
\* digits: a text that is short, long or has a character of another kind is
\* refused, and no two texts stand for one token.
DecodesOnlyItsEncoding ==
    pc = "decoded" =>
        \A t \in result : encodeRdmaTokenHex(t) = [k \in 1 .. Len(text) |-> Lower(text[k])]


\* The forms of a reply that docs/interop.rst lists
Listed(value) ==
    \/ value \in {<<"o", "k">>, <<"e", "r", "r">>}
    \/ Len(value) = 3 /\ value[1] \in ToSet(SubSeq(kHexDigits, 2, 6)) /\ AllDigits(value, 10)
    \/ /\ Len(value) = 4 + kRdmaTokenHexLen /\ SubSeq(value, 1, 4) = <<"2", "0", "0", ":">>
       /\ \A k \in 5 .. Len(value) : DigitValues(value[k], 16) # {}
       /\ value[5] = "0" /\ value[6] \in {"0", "1"}

\* Exactly the listed forms are accepted, followed by any number of NULs, CRs
\* and LFs: everything else is malformed, and never a success.
AcceptsTheListedForms ==
    pc \in {"received", "parsed"} =>
        (result # {} <=> \E n \in 0 .. Len(text) :
            /\ Listed(SubSeq(text, 1, n))
            /\ \A k \in n + 1 .. Len(text) : text[k] \in Trailing)


=============================================================================
