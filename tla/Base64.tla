------------------------------ MODULE Base64 ------------------------------
(***************************************************************************)
(* keystore_get_secret (keystore-blob.c) and decode_base64 (base64.c).  A  *)
(* state variable holds the text of a blob; the blob is given to a device  *)
(* of the kernel, whose answer is the text of the key.  decode_base64      *)
(* reads a text one character at a time; a group of four six-bit digits,   *)
(* or a shorter one before a "=", gives up to three bytes.  The buffer for *)
(* the blob has as many bytes as the text has characters and one more, the *)
(* buffer for the key just as many.                                        *)
(***************************************************************************)
EXTENDS Integers, Sequences, SequencesExt

CONSTANTS
    Plain,      \* the byte sequences that are encoded
    PAD, BREAK  \* the character "=", and one that is not of the alphabet

ASSUME Base64Assumption ==
    \A p \in Plain : \A i \in DOMAIN p : p[i] \in 0 .. 255

Digit64 == 0 .. 63

VARIABLES
    src,        \* the characters that are not read yet
    six_bit,    \* the digits of the group that is being fetched
    dst,        \* the bytes written
    dst_len,    \* room the loop believes to have left
    length,     \* what decode_base64 will return
    text,       \* the bytes that were encoded, and the size of the buffer
    decoding,   \* in decode_base64
    secret      \* what keystore_get_secret is at: "idle", "blob", "key"

base64Vars == <<src, six_bit, dst, dst_len, length, text, decoding, secret>>

-----------------------------------------------------------------------------
(* The encoding, external: the text was made by another program *)

Group3(b) ==
    CASE Len(b) = 3 -> <<b[1] \div 4, (b[1] % 4) * 16 + b[2] \div 16,
                         (b[2] % 16) * 4 + b[3] \div 64, b[3] % 64>>
      [] Len(b) = 2 -> <<b[1] \div 4, (b[1] % 4) * 16 + b[2] \div 16,
                         (b[2] % 16) * 4, PAD>>
      [] Len(b) = 1 -> <<b[1] \div 4, (b[1] % 4) * 16, PAD, PAD>>

Encode64(b) ==
    FoldLeft(LAMBDA acc, k : acc \o Group3(SubSeq(b, 3 * k - 2, 3 * k)),
             <<>>, [k \in 1 .. Len(b) \div 3 |-> k])
    \o (IF Len(b) % 3 = 0 THEN <<>>
        ELSE Group3(SubSeq(b, 3 * (Len(b) \div 3) + 1, Len(b))))

-----------------------------------------------------------------------------
Base64Init ==
    /\ src = <<>> /\ six_bit = <<>> /\ dst = <<>>
    /\ dst_len = 0 /\ length = 0
    /\ text = [plain |-> <<>>, size |-> 0]
    /\ decoding = FALSE /\ secret = "idle"

\* The text of p may be broken into lines anywhere; extra is what the buffer has
\* on top of a byte per character.
decode_base64(p, at, extra) ==
    LET t == Encode64(p)
        s == SubSeq(t, 1, at) \o <<BREAK>> \o SubSeq(t, at + 1, Len(t))
    IN /\ ~decoding /\ at <= Len(t)
       /\ src' = s /\ six_bit' = <<>> /\ dst' = <<>> /\ length' = 0
       /\ dst_len' = Len(s) + extra
       /\ text' = [plain |-> p, size |-> Len(s) + extra]
       /\ decoding' = TRUE

\* The variable is read; a missing one, or a modifier that cannot be written,
\* ends the call before anything is decoded.
GetBlob(p, at) == secret = "idle" /\ secret' = "blob" /\ decode_base64(p, at, 1)

\* The blob is written and the text of the key is read.  A blob is longer than
\* what it hides, so a NUL is left behind the text.
GetPayload(p, at) == secret = "blob" /\ secret' = "key" /\ decode_base64(p, at, 0)

\* The device refuses the blob, has no answer, or all is done.
KeystoreReturns ==
    /\ ~decoding /\ secret \in {"blob", "key"}
    /\ secret' = "idle"
    /\ UNCHANGED <<src, six_bit, dst, dst_len, length, text, decoding>>

\* The bytes of a group, in 8 bits each.
Bytes8(d) ==
    <<(d[1] * 4 + d[2] \div 16) % 256,
      (d[2] * 16 + d[3] \div 4) % 256,
      (d[3] * 64 + d[4]) % 256>>

\* Mutant of GroupBytes: a short group gives all three bytes.
GroupBytesAlways(d) == Bytes8([i \in 1 .. 4 |-> IF i <= Len(d) THEN d[i] ELSE 0])

GroupBytes(d) ==
    SubSeq(Bytes8([i \in 1 .. 4 |-> IF i <= Len(d) THEN d[i] ELSE 0]),
           1, IF Len(d) > 1 THEN Len(d) - 1 ELSE 0)

\* A group is complete: dst_len grows by one for the second "=" of "==".
EndGroup(d) ==
    /\ dst' = dst \o GroupBytes(d)
    /\ dst_len' = dst_len - (Len(d) - 1)
    /\ length' = IF d = <<>> THEN length ELSE length + Len(d) - 1
    /\ six_bit' = <<>>

FetchDigit ==
    /\ decoding /\ dst_len > 0 /\ src # <<>> /\ Head(src) \in Digit64
    /\ src' = Tail(src)
    /\ LET d == Append(six_bit, Head(src))
       IN IF Len(d) = 4 THEN EndGroup(d)
          ELSE six_bit' = d /\ UNCHANGED <<dst, dst_len, length>>
    /\ UNCHANGED <<text, decoding, secret>>

FetchPad ==
    /\ decoding /\ dst_len > 0 /\ src # <<>> /\ Head(src) = PAD
    /\ src' = Tail(src)
    /\ EndGroup(six_bit)
    /\ UNCHANGED <<text, decoding, secret>>

SkipInvalid ==
    /\ decoding /\ dst_len > 0 /\ src # <<>> /\ Head(src) = BREAK
    /\ src' = Tail(src)
    /\ UNCHANGED <<six_bit, dst, dst_len, length, text, decoding, secret>>

\* The end of the text drops a group that has begun.
DecodeReturns ==
    /\ decoding /\ (dst_len <= 0 \/ src = <<>>)
    /\ decoding' = FALSE
    /\ UNCHANGED <<src, six_bit, dst, dst_len, length, text, secret>>

Base64Next ==
    \/ \E p \in Plain : \E at \in 0 .. Len(Encode64(p)) :
           GetBlob(p, at) \/ GetPayload(p, at)
    \/ KeystoreReturns
    \/ FetchDigit \/ FetchPad \/ SkipInvalid \/ DecodeReturns

Base64Spec == Base64Init /\ [][Base64Next]_base64Vars

-----------------------------------------------------------------------------
(* Properties *)

\* decode_base64 never writes past either of the buffers keystore_get_secret
\* gives it, and returns all bytes of the text and their number, wherever the
\* lines of the text are broken and however it is padded.
Base64ReadsBack ==
    /\ Len(dst) <= text.size
    /\ ~decoding => dst = text.plain /\ length = Len(dst)
=============================================================================
