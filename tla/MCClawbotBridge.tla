-------------------------- MODULE MCClawbotBridge --------------------------
EXTENDS ClawbotBridge, CallbackEnvelope

CONSTANTS a, e, r, d

\* Envelopes of every length around the end of a block open to their body,
\* and only for a receiver of their token, key and id.
Bytes(n, v) == [i \in 1..n |-> v]

ASSUME EnvelopesOpen ==
    \A n \in 0..2 * BlockSize + 1, m \in 1..BlockSize, v \in {0, 1, BlockSize, 255} :
        LET sealed == Seal("token", "key", Bytes(16, v), Bytes(n, v), Bytes(m, 7))
        IN  /\ Len(sealed.data) % BlockSize = 0
            /\ Open("token", "key", Bytes(m, 7), sealed) = Bytes(n, v)
            /\ Open("token", "key", Bytes(m, 8), sealed) = Bad
            /\ Open("token", "other", Bytes(m, 7), sealed) = Bad
            /\ Open("other", "key", Bytes(m, 7), sealed) = Bad
=============================================================================
