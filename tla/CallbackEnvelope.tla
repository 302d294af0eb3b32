-------------------------- MODULE CallbackEnvelope --------------------------
(***************************************************************************)
(* The envelope around the callbacks and replies of WeCom and WeChat       *)
(* (wechat_official/crypto.py and wechat_clawbot/wecom_crypto.py, which    *)
(* are the same but for their names): padding, framing and the checks on   *)
(* the way back.  The official account seals its replies and opens its     *)
(* callbacks; the bridge only opens.                                       *)
(*                                                                         *)
(* A ciphertext is modelled by its key and its plain bytes, a signature by *)
(* the token it was made with; both are the library's business.            *)
(***************************************************************************)
EXTENDS Integers, Sequences

CONSTANTS
    BlockSize,   \* BLOCK_SIZE
    Bad          \* the exception of an envelope that cannot be opened

Byte == 0..255

ASSUME BlockAssumption == BlockSize \in 1..255
ASSUME BadAssumption == Bad \notin Seq(Byte)

\* _pkcs7_pad: between one byte and a whole block
PadLength(data) == BlockSize - (Len(data) % BlockSize)

Pad(data) == data \o [i \in 1..PadLength(data) |-> PadLength(data)]

\* _pkcs7_unpad.  A slice data[-n:] of fewer than n bytes is all of them,
\* which are then fewer than the n bytes it is compared with.
Unpad(data) ==
    IF data = <<>> THEN Bad
    ELSE LET n == data[Len(data)]
         IN  IF \/ n < 1 \/ n > BlockSize \/ n > Len(data)
                \/ \E i \in Len(data) - n + 1 .. Len(data) : data[i] # n
             THEN Bad
             ELSE SubSeq(data, 1, Len(data) - n)

\* struct.pack(">I", n), of an n that four bytes hold, and struct.unpack
Lengths == 256 * 256 * 256 * 256

Word(n) ==
    <<((n \div 256) \div 256) \div 256, ((n \div 256) \div 256) % 256, (n \div 256) % 256, n % 256>>

Value(w) == ((w[1] * 256 + w[2]) * 256 + w[3]) * 256 + w[4]

RandomBytes == 16
WordBytes == 4
Header == RandomBytes + WordBytes

\* encrypt_message, given its random bytes and the receiver's id
Frame(random, body, id) == random \o Word(Len(body)) \o body \o id

Seal(token, key, random, body, id) ==
    [token |-> token, key |-> key, data |-> Pad(Frame(random, body, id))]

\* decrypt_message: the payload is cut where its length word says
BodyLength(plain) == Value(SubSeq(plain, RandomBytes + 1, Header))

Slice(s, from, to) == SubSeq(s, from, IF to <= Len(s) THEN to ELSE Len(s))

Payload(plain) == Slice(plain, Header + 1, Header + BodyLength(plain))

Receiver(plain) == SubSeq(plain, Header + BodyLength(plain) + 1, Len(plain))

Unframe(plain, id) ==
    IF plain = Bad THEN Bad
    ELSE IF Len(plain) < Header THEN Bad
    ELSE IF id # <<>> /\ Receiver(plain) # id THEN Bad
    ELSE Payload(plain)

Open(token, key, id, e) ==
    IF e.token # token \/ e.key # key THEN Bad ELSE Unframe(Unpad(e.data), id)
=============================================================================
