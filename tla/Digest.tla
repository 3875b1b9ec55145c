------------------------------- MODULE Digest -------------------------------
(***************************************************************************)
(* Digests (crypto/): the block buffering of sha1.c and sha2.c, the HMAC   *)
(* of hmac.c on top of it, and the calls of digest.c and digest.h.  The    *)
(* transform of a block is left abstract: the state of a digest is the     *)
(* sequence of the blocks it was fed, and a sum is known by that sequence, *)
(* so two sums are equal exactly when the same blocks went in.  The raw    *)
(* format keeps one digest for the life of a state and uses it for every   *)
(* verify and pack, also after one that was given up.                      *)
(***************************************************************************)
EXTENDS Integers, Sequences, SequencesExt, FiniteSetsExt

CONSTANTS
    Block,       \* bytes of a block: 64 or 128
    LenBytes,    \* bytes of the length at the end: 8 or 16
    SumBytes,    \* digest_length
    Keys,        \* keys of any length
    Chunks,      \* how many bytes one call of digest_update is given
    MaxMessage   \* bound on the length of a message

ASSUME DigestAssumption ==
    /\ LenBytes \in Nat \ {0} /\ Block \in Nat /\ LenBytes < Block
    /\ SumBytes \in Nat /\ MaxMessage \in Nat
    /\ Chunks \subseteq Nat

VARIABLES
    ctx,         \* the context of the digest: state, count and buf
    key,         \* the bytes at dh->key, or <<>> for a digest without
    asked,       \* history: the key that was last given to digest_set_key
    message,     \* history: what went in since the last digest_init
    sum,         \* what digest_final returned, or <<>>
    busy,        \* between digest_init and digest_final
    verdict      \* what the last digest_verify was given and returned, or <<>>

digestVars == <<ctx, key, asked, message, sum, busy, verdict>>

-----------------------------------------------------------------------------
(* Bytes *)

Data(n) == [data |-> n]
Byte(n) == [byte |-> n]
Freed(k) == [freed |-> k]
Stop80 == [pad |-> 128]
Zero == [pad |-> 0]
BitLength(n, k) == [bits |-> n * 8, byte |-> k]
Keyed(pad, k) == [pad |-> pad, key |-> k]

-----------------------------------------------------------------------------
(* sha1.c and sha2.c *)

\* What memset leaves of a context, and the memory it is first made of; it is
\* not used again before an init.
Zeroed == [state |-> <<>>, count |-> 0, buf |-> [k \in 1 .. Block |-> Zero]]

\* sha256_init and its relatives: what is in buf stays there.
Initialised(c) == [state |-> <<>>, count |-> 0, buf |-> c.buf]

\* The transform of some blocks in turn, of which nothing is assumed but that
\* it is deterministic: the state remembers the blocks.
Transform(state, blocks) == state \o blocks

\* memcpy(buf + at, src, ...)
Copied(buf, at, src) ==
    [k \in 1 .. Block |->
        IF k > at /\ k <= at + Len(src) THEN src[k - at] ELSE buf[k]]

\* The whole blocks of data from done on, as the do loop feeds them.
WholeBlocks(data, done) ==
    [k \in 1 .. ((Len(data) - done) \div Block) |->
        SubSeq(data, done + (k - 1) * Block + 1, done + k * Block)]

\* sha1_update, sha256_update, sha512_update: a buffer that is begun is filled
\* up first; whole blocks are taken from data itself; the rest is kept.
NeedsTransform(partial, len) == partial + len > Block - 1

DigestUpdate(c, data) ==
    LET partial == c.count % Block
        first == IF partial = 0 THEN 0 ELSE Block - partial
        head == IF partial = 0 THEN <<>>
                ELSE <<Copied(c.buf, partial, SubSeq(data, 1, first))>>
        tail == WholeBlocks(data, first)
        done == first + Len(tail) * Block
    IN  IF NeedsTransform(partial, Len(data))
        THEN [state |-> Transform(c.state, head \o tail),
              count |-> c.count + Len(data),
              buf |-> Copied(c.buf, 0, SubSeq(data, done + 1, Len(data)))]
        ELSE [c EXCEPT !.count = @ + Len(data), !.buf = Copied(@, partial, data)]

\* Mutant of PadLength: off by one where the length field just fits.
PadLengthLate(index) ==
    IF index <= Block - LenBytes THEN Block - LenBytes - index
    ELSE 2 * Block - LenBytes - index

\* Pad out to 56 mod 64.
PadLength(index) ==
    IF index < Block - LenBytes THEN Block - LenBytes - index
    ELSE 2 * Block - LenBytes - index

Padding(n) == [k \in 1 .. n |-> IF k = 1 THEN Stop80 ELSE Zero]
LengthField(n) == [k \in 1 .. LenBytes |-> BitLength(n, k)]

\* sha1_final and its relatives: padding and the length from before it.
FinalContext(c) ==
    DigestUpdate(DigestUpdate(c, Padding(PadLength(c.count % Block))),
                 LengthField(c.count))

SumOf(blocks) == [k \in 1 .. SumBytes |-> [sum |-> blocks, at |-> k]]

DigestFinal(c) == SumOf(FinalContext(c).state)

-----------------------------------------------------------------------------
(* hmac.c *)

\* digest_hmac_init: 0x36 and 0x5c over a whole block, with the key.
Pad(byte, k) ==
    [i \in 1 .. Block |-> Keyed(byte, IF i <= Len(k) THEN k[i] ELSE Byte(0))]

HmacInit(c, k) == DigestUpdate(Initialised(c), Pad("0x36", k))

\* digest_hmac_final hashes the inner sum once more, in the context that the
\* first digest_final zeroed.
HmacFinal(c, k) ==
    DigestFinal(DigestUpdate(DigestUpdate(Initialised(Zeroed), Pad("0x5c", k)),
                             DigestFinal(c)))

FitsBlock(k) == Len(k) <= Block

\* digest_hmac_set_key of a longer key hashes the bytes at the old key, which it
\* has freed, and frees their sum, which is from then on the key.  What is there
\* when it is read may still be that sum, or anything else.  Bound: the sum of a
\* key that was given.
Dangling ==
    {[k \in 1 .. SumBytes |-> Freed(k)]} \cup
    (IF key = asked THEN {DigestFinal(DigestUpdate(Initialised(Zeroed), key))} ELSE {})

-----------------------------------------------------------------------------
(* Calls *)

Begin(c, k) == IF k = <<>> THEN Initialised(c) ELSE HmacInit(c, k)
Finish(c, k) == IF k = <<>> THEN DigestFinal(c) ELSE HmacFinal(c, k)

\* backend_raw_digest_init: the key is set and the digest initialised, which
\* may be in the middle of another message.
digest_init(k) ==
    /\ key' \in IF FitsBlock(k) THEN {k} ELSE Dangling
    /\ FitsBlock(k) \/ key # <<>>
    /\ ctx' = Begin(IF FitsBlock(k) THEN ctx ELSE Zeroed, key')
    /\ asked' = k /\ busy' = TRUE
    /\ message' = <<>> /\ sum' = <<>> /\ verdict' = <<>>

\* digest_set_key of a long key when there is no old one: there is nothing to
\* hash, which is -EINVAL, and the caller gives up.
KeyRefused(k) ==
    /\ ~FitsBlock(k) /\ key = <<>>
    /\ asked' = k /\ busy' = FALSE
    /\ message' = <<>> /\ sum' = <<>> /\ verdict' = <<>>
    /\ UNCHANGED <<ctx, key>>

digest_update(n) ==
    LET data == [k \in 1 .. n |-> Data(Len(message) + k)] IN
    /\ busy /\ Len(message) + n <= MaxMessage
    /\ ctx' = DigestUpdate(ctx, data) /\ message' = message \o data
    /\ UNCHANGED <<key, asked, sum, busy, verdict>>

\* digest_final; the context is zeroed.
digest_final ==
    /\ busy
    /\ sum' = Finish(ctx, key)
    /\ ctx' = Zeroed /\ busy' = FALSE
    /\ UNCHANGED <<key, asked, message, verdict>>

\* digest_verify compares all bytes of the sum with those that are given.
digest_generic_verify(md) ==
    /\ busy
    /\ verdict' = <<md, IF md = Finish(ctx, key) THEN "OK" ELSE "EINVAL">>
    /\ ctx' = Zeroed /\ busy' = FALSE
    /\ UNCHANGED <<key, asked, message, sum>>

\* All in one call, with the key of the digest; nothing is not a message.  It may
\* come while another message is being fed.
digest_generic_digest(n) ==
    LET data == [k \in 1 .. n |-> Data(k)] IN
    /\ 0 < n /\ n <= MaxMessage
    /\ FitsBlock(asked) \/ key # <<>>
    /\ sum' = Finish(DigestUpdate(Begin(ctx, key), data), key) /\ message' = data
    /\ ctx' = Zeroed /\ busy' = FALSE /\ verdict' = <<>>
    /\ UNCHANGED <<key, asked>>

DigestInit ==
    /\ ctx = Zeroed /\ key = <<>> /\ asked = <<>> /\ message = <<>> /\ sum = <<>> /\ busy = FALSE
    /\ verdict = <<>>

-----------------------------------------------------------------------------

\* The padded message of FIPS 180, cut into blocks.
PaddedLength(n) == CHOOSE m \in n + 1 + LenBytes .. n + LenBytes + Block : m % Block = 0

Standard(m) ==
    LET padded == m \o <<Stop80>>
                  \o [k \in 1 .. PaddedLength(Len(m)) - LenBytes - Len(m) - 1 |-> Zero]
                  \o LengthField(Len(m))
    IN  SumOf([k \in 1 .. Len(padded) \div Block |->
                  SubSeq(padded, (k - 1) * Block + 1, k * Block)])

\* The HMAC of RFC 2104 for keys up to a block.
Expected(k, m) ==
    IF k = <<>> THEN Standard(m)
    ELSE Standard(Pad("0x5c", k) \o Standard(Pad("0x36", k) \o m))

\* Sums that can come with a message: its own, that of another key, and that of
\* a message which lacks the last byte.
Claims ==
    {Expected(k, message) : k \in {k \in Keys \cup {<<>>} : FitsBlock(k)}} \cup
    {Expected(key, SubSeq(message, 1, Len(message) - 1))}

DigestNext ==
    \/ \E k \in Keys \cup {<<>>} : digest_init(k) \/ KeyRefused(k)
    \/ \E n \in Chunks : digest_update(n) \/ digest_generic_digest(n)
    \/ digest_final
    \/ busy /\ \E md \in Claims : digest_generic_verify(md)

DigestSpec == DigestInit /\ [][DigestNext]_digestVars

-----------------------------------------------------------------------------

\* The digest of a message does not depend on the pieces it is given in nor on
\* what the digest was used for before, also when a message was given up and its
\* last bytes are still in buf, at every length around a full block and around
\* the place of the length field; neither does the HMAC; and a verify accepts the
\* sum of the message that went in, with its key, and no other.  That is so for
\* every key that fits a block, also after longer ones.
SumOfMessage ==
    FitsBlock(asked) =>
        /\ sum # <<>> => sum = Expected(asked, message)
        /\ verdict # <<>> =>
              (verdict[2] = "OK" <=> verdict[1] = Expected(asked, message))
=============================================================================
