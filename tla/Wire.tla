-------------------------------- MODULE Wire --------------------------------
(***************************************************************************)
(* A FrameSet on its way through a datagram: it is signed, encrypted and   *)
(* compressed (clientlib/frameset.c, signframe.c, cryptcurve25519.c,       *)
(* compressframe.c), sent and received (netio.c) and decoded again         *)
(* (packetdecoder.c).  It may be sent several times, under other keys and  *)
(* settings; the datagram may be lost or damaged.                          *)
(*                                                                         *)
(* What libsodium and zlib compute is held in `secrets`: the k-th thing    *)
(* sealed or deflated for the packet stands in it as bytes Base + k.       *)
(***************************************************************************)
EXTENDS Frames

CONSTANTS
    Payload,          \* frames an application sends
    MaxFrames,        \* bound: frames of a FrameSet
    FsType, FsFlags,  \* the type and the flags of the FrameSet
    KeyId,            \* names of keys, one byte each
    Me,               \* the key the receiver has the private half of
    MinorType,        \* the checksum used for signing
    Nonce, Mac,       \* crypto_box_NONCEBYTES, crypto_box_MACBYTES
    MaxUncompressed,  \* MAXUNCOMPRESSEDSIZE
    Threshold,        \* DEFAULT_COMPRESSION_THRESHOLD
    MaxSend           \* bound: how often the FrameSet is sent

ASSUME WireAssumption ==
    /\ KeyId \subseteq 1..(Base - 1) /\ Me \in KeyId
    /\ MinorType \in CksumTypes
    /\ {Nonce, Mac, MaxUncompressed, Threshold, MaxFrames, MaxSend} \subseteq Nat

VARIABLES
    fs,       \* the sender's FrameSet: its framelist
    destkey,  \* the sender's and the receiver's key for this destination; <<>>: none
    compress, \* does the sender's NetIO have a CompressFrame?
    pkt,      \* the datagram on its way, <<>> if there is none
    secrets,  \* what was sealed or deflated for it
    known,    \* whose public keys the receiver has
    got,      \* what recvframesets made of the last datagram: "nothing", "refused" or "read", and FrameSets
    intact,   \* history: the last datagram was not damaged
    payload,  \* history: the frames the application put into the FrameSet
    sends     \* how often it was sent

vars == <<fs, destkey, compress, pkt, secrets, known, got, intact, payload, sends>>

INITSIZE == HDRSZ + 2  \* FRAMESET_INITSIZE

-----------------------------------------------------------------------------
(* Cryptography and compression, as the code relies on them.               *)

Opaque(k, n) == [i \in 1..n |-> Base + k]

\* crypto_box_easy: a MAC, and as many bytes as there are in the clear
Sealed(k, clear) == Opaque(k, Mac + Len(clear))

\* crypto_box_open_easy succeeds on what was sealed with these keys and nothing else.
Opens(s, sender, receiver, box) ==
    {k \in DOMAIN s : s[k].by = <<sender, receiver>> /\ box = Sealed(k, s[k].clear)}

\* deflate: shorter than what goes in
Deflated(k, clear) == Opaque(k, Len(clear) \div 3)

\* inflate reads to the end of the stream and needs no more; what follows is ignored.
Inflates(s, stream, size) ==
    {k \in DOMAIN s : /\ s[k].by = <<>>
                      /\ IsPrefix(Deflated(k, s[k].clear), stream)
                      /\ Len(s[k].clear) <= size}

COMPRESS_ZLIB == 1

\* _signframe_compute_cksum_glib: over all that follows the SignFrame.  A stand-in
\* for the digest, to which every byte and its place matter.
Checksum(after) ==
    Digits(FoldLeftDomain(LAMBDA x, i : (x + i * after[i]) % Base ^ CksumLength, 0, after), CksumLength)

\* _signframe_isvalid: does the signature in front match what follows it?
SignIsValid(bytes) ==
    /\ TlvType(bytes) = SIG
    /\ SubSeq(TlvValue(bytes), 3, 2 + CksumLength) = Checksum(From(bytes, HDRSZ + 3 + CksumLength))

-----------------------------------------------------------------------------
(* frameset_construct_packet                                               *)

IsSpecial(f) == Class(f.type) \in {"SignFrame", "CryptCurve25519", "CompressFrame"}

SignFrame == [type |-> SIG, minor |-> MinorType, length |-> CksumLength + 2]

CryptFrame(pair) == [type |-> CRYPT, sender |-> pair[1], receiver |-> pair[2]]

CompressFrame(size) == [type |-> COMPRESS, method |-> COMPRESS_ZLIB, size |-> size]

\* The frames the last construction put in front go.
Stripped(frames) ==
    LET first == CHOOSE i \in 1..(Len(frames) + 1) :
                     /\ \A j \in 1..(i - 1) : IsSpecial(frames[j])
                     /\ i > Len(frames) \/ ~IsSpecial(frames[i])
    IN  From(frames, first)

DataSpace(frames) == FoldLeft(LAMBDA n, f : n + Len(Marshalled(f)), INITSIZE, frames)

\* Mutant: a FrameSet that was sent before gets another END.
EndedAgain(frames) == Append(frames, [type |-> END, bytes |-> <<>>])

Ended(frames) ==
    IF frames # <<>> /\ Last(frames).type = END THEN frames
    ELSE Append(frames, [type |-> END, bytes |-> <<>>])

\* TLVLEN: two names of one byte, each with its length and a NUL, nonce and MAC
CryptLength == 6 + Nonce + Mac

Names(pair) == <<2, pair[1], 0, 2, pair[2], 0>>

\* The updatedata of the three special frames; after is what follows them.
CompressData(after, k) ==
    Header(COMPRESS, 4 + Len(Deflated(k, after)))
        \o <<COMPRESS_ZLIB>> \o Digits(Len(after), 3) \o Deflated(k, after)

CryptData(pair, after, k) ==
    Header(CRYPT, CryptLength + Len(after)) \o Names(pair) \o Opaque(k, Nonce) \o Sealed(k, after)

\* Mutant: the checksum starts one byte late.
SignDataLate(after) ==
    Header(SIG, SignFrame.length) \o <<SIGNTYPE_GLIB, MinorType>> \o Checksum(From(after, 2)) \o after

SignData(after) ==
    Header(SIG, SignFrame.length) \o <<SIGNTYPE_GLIB, MinorType>> \o Checksum(after) \o after

\* All frames are written from the last to the first: what compresses or encrypts
\* does it to all that has been written by then.
Construct(frames, pair, comp) ==
    LET rest     == Ended(Stripped(frames))
        plain    == FoldRight(LAMBDA f, b : Marshalled(f) \o b, rest, <<>>)
        squeeze  == comp /\ DataSpace(Stripped(frames)) > Threshold
        s1       == IF squeeze THEN <<[by |-> <<>>, clear |-> plain]>> ELSE <<>>
        squeezed == IF squeeze THEN CompressData(plain, 1) ELSE plain
        s2       == IF pair # <<>> THEN Append(s1, [by |-> pair, clear |-> squeezed]) ELSE s1
        crypted  == IF pair # <<>> THEN CryptData(pair, squeezed, Len(s2)) ELSE squeezed
        signed   == SignData(crypted)
    IN  [frames  |-> <<SignFrame>>
                     \o (IF pair # <<>> THEN <<CryptFrame(pair)>> ELSE <<>>)
                     \o (IF squeeze THEN <<CompressFrame(Len(plain))>> ELSE <<>>)
                     \o rest,
         secrets |-> s2,
         packet  |-> Header(FsType, Len(signed)) \o Digits(FsFlags, 2) \o signed]

-----------------------------------------------------------------------------
(* _pktdata_to_framesetlist                                                *)

\* compressframe_tlvconstructor: the packet goes on with what inflate yields
CompressRead(bytes, s) ==
    LET method == Get(bytes, HDRSZ + 1, 1)
        size   == Get(bytes, HDRSZ + 2, 3)
        found  == Inflates(s, From(bytes, HDRSZ + 5), size)
    IN  IF method = COMPRESS_ZLIB /\ size > 16 /\ size <= MaxUncompressed /\ found # {}
        THEN [frame |-> CompressFrame(size), rest |-> s[CHOOSE k \in found : TRUE].clear]
        ELSE Refused

\* A key name at position i: its length, then characters up to one NUL
NameAt(bytes, i, keys) == Get(bytes, i, 1) = 2 /\ Get(bytes, i + 1, 1) \in keys /\ Get(bytes, i + 2, 1) = 0

\* Mutant: what does not decrypt is read as it is.
DecryptedUnchecked(s, pair, box) ==
    IF Opens(s, pair[1], pair[2], box) = {} THEN {From(box, Mac + 1)}
    ELSE {s[k].clear : k \in Opens(s, pair[1], pair[2], box)}

Decrypted(s, pair, box) == {s[k].clear : k \in Opens(s, pair[1], pair[2], box)}

\* cryptcurve25519_tlvconstructor: the packet goes on in the clear.  What follows
\* the entry remains as it is.
CryptRead(bytes, s, keys) ==
    LET pair  == <<Get(bytes, HDRSZ + 2, 1), Get(bytes, HDRSZ + 5, 1)>>
        box   == Slice(bytes, HDRSZ + 7 + Nonce, HDRSZ + TlvLen(bytes))
        clear == Decrypted(s, pair, box)
    IN  IF /\ NameAt(bytes, HDRSZ + 1, keys) /\ NameAt(bytes, HDRSZ + 4, {Me})
           /\ Len(bytes) >= HDRSZ + CryptLength
           /\ clear # {}
        THEN [frame |-> CryptFrame(pair),
              rest  |-> (CHOOSE c \in clear : TRUE) \o From(bytes, HDRSZ + TlvLen(bytes) + 1)]
        ELSE Refused

FrameRead(bytes, s, keys) ==
    CASE Class(TlvType(bytes)) = "CompressFrame"   -> CompressRead(bytes, s)
      [] Class(TlvType(bytes)) = "CryptCurve25519" -> CryptRead(bytes, s, keys)
      [] OTHER                                     -> PlainRead(bytes)

\* The frames from bytes to their end, after those before; << >> if one is refused.
RECURSIVE FramesRead(_, _, _, _)
FramesRead(bytes, before, s, keys) ==
    IF bytes = <<>> THEN before
    ELSE LET r == FrameRead(bytes, s, keys) IN
         IF r = Refused \/ (before = <<>> /\ Class(r.frame.type) # "SignFrame") THEN <<>>
         ELSE FramesRead(r.rest, Append(before, r.frame), s, keys)

\* The FrameSets from bytes to the end of the packet, after those before; << >> if
\* one is refused.  Too short a length ends the packet.
RECURSIVE FrameSetsRead(_, _, _, _)
FrameSetsRead(bytes, before, s, keys) ==
    LET length == TlvLen(bytes)
        frames == FramesRead(Slice(bytes, INITSIZE + 1, INITSIZE + length), <<>>, s, keys)
        this   == [fstype |-> TlvType(bytes), flags |-> Get(bytes, HDRSZ + 1, 2), frames |-> frames]
    IN  CASE bytes = <<>>                                                  -> before
          [] Len(bytes) >= INITSIZE /\ length > Len(bytes) - INITSIZE      -> <<>>
          [] length < INITSIZE                                             -> before
          [] ~IsValidPacket(From(bytes, INITSIZE + 1)) \/ frames = <<>>    -> <<>>
          [] OTHER -> FrameSetsRead(From(bytes, INITSIZE + length + 1), Append(before, this), s, keys)

-----------------------------------------------------------------------------
(* Actions.                                                                *)

\* The sender does not sign with the receiver's key.
Others == KeyId \ {Me}

Nothing == [heard |-> "nothing", framesets |-> <<>>]

\* frameset_append_frame
AppendFrame(f) ==
    /\ sends = 0 /\ Len(fs) < MaxFrames
    /\ fs' = Append(fs, f) /\ payload' = fs'
    /\ UNCHANGED <<destkey, compress, pkt, secrets, known, got, intact, sends>>

\* The CMA tells the keys and the settings to use while FrameSets are queued.
Reconfigure ==
    /\ sends > 0 /\ pkt = <<>> /\ got = Nothing
    /\ destkey' \in {<<>>} \cup (Others \X KeyId)
    /\ compress' \in BOOLEAN
    /\ UNCHANGED <<fs, pkt, secrets, known, got, intact, payload, sends>>

\* _netio_sendaframeset, and _netio_sendframesets for each of its FrameSets
SendAFrameSet ==
    /\ pkt = <<>> /\ sends < MaxSend
    /\ LET c == Construct(fs, destkey, compress) IN
       fs' = c.frames /\ pkt' = c.packet /\ secrets' = c.secrets
    /\ sends' = sends + 1
    /\ intact' = TRUE /\ got' = Nothing
    /\ UNCHANGED <<destkey, compress, known, payload>>

\* The network, or _netio_sendapacket and _netio_recvapacket told to lose packets
Lose ==
    /\ pkt # <<>>
    /\ pkt' = <<>> /\ secrets' = <<>>
    /\ UNCHANGED <<fs, destkey, compress, known, got, intact, payload, sends>>

\* One byte arrives as another.
Damage ==
    /\ pkt # <<>> /\ intact
    /\ \E i \in DOMAIN pkt : \E b \in {0, Base - 1} \ {pkt[i]} :
           pkt' = [pkt EXCEPT ![i] = b]
    /\ intact' = FALSE
    /\ UNCHANGED <<fs, destkey, compress, secrets, known, got, payload, sends>>

\* _netio_recvframesets.  known is what the receiver's key tables hold by then.
RecvFrameSets ==
    /\ pkt # <<>>
    /\ known' \in SUBSET Others
    /\ LET sets == FrameSetsRead(pkt, <<>>, secrets, known') IN
       got' = [heard |-> IF sets = <<>> THEN "refused" ELSE "read", framesets |-> sets]
    /\ pkt' = <<>> /\ secrets' = <<>>
    /\ UNCHANGED <<fs, destkey, compress, intact, payload, sends>>

Init ==
    /\ fs = <<>> /\ payload = <<>>
    /\ destkey \in {<<>>} \cup (Others \X {Me}) /\ compress \in BOOLEAN
    /\ pkt = <<>> /\ secrets = <<>> /\ known = {}
    /\ got = Nothing /\ intact = TRUE /\ sends = 0

Next ==
    \/ \E f \in Payload : AppendFrame(f)
    \/ Reconfigure
    \/ SendAFrameSet \/ Lose \/ Damage \/ RecvFrameSets

Spec == Init /\ [][Next]_vars

-----------------------------------------------------------------------------
(* Properties.                                                             *)

\* Whose FrameSet this says it is (frameset_sender_key_id); {}: nobody's.
SenderKeyIds(frames) ==
    IF Len(frames) > 1 /\ Class(frames[2].type) = "CryptCurve25519" THEN {frames[2].sender} ELSE {}

SentFrameSet == [fstype |-> FsType, flags |-> FsFlags, frames |-> fs]

\* What arrives undamaged is read as it was written, to the last integer at the
\* limit of its width, whatever it was compressed and encrypted with; but not by
\* those who lack the keys.
ReadsAsWritten ==
    got.heard # "nothing" /\ intact =>
        LET sealed == SenderKeyIds(fs) # {} IN
        got.framesets = IF sealed => fs[2].sender \in known /\ fs[2].receiver = Me
                        THEN <<SentFrameSet>> ELSE <<>>

\* However often a FrameSet is sent, under whatever settings, it leads with one
\* signature, at most one encryption and then at most one compression frame ("only
\* works if they're first, and all together"), and ends with one END.
SpecialsLeadOnce ==
    sends > 0 =>
        LET specials == SelectSeq(fs, IsSpecial)
            classes  == [i \in DOMAIN specials |-> Class(specials[i].type)]
        IN  /\ fs = specials \o Ended(payload)
            /\ Head(classes) = "SignFrame"
            /\ Tail(classes) \in {<<>>, <<"CryptCurve25519">>, <<"CompressFrame">>,
                                  <<"CryptCurve25519", "CompressFrame">>}

\* The signature covers the packet as it goes out, encrypted and compressed: no
\* frame written after it changes what it was computed of.
SignatureCovers ==
    pkt # <<>> /\ intact => SignIsValid(From(pkt, INITSIZE + 1))

\* Damaged or not, a FrameSet that names its sender holds what that sender sealed.
SealedIsAuthentic ==
    \A i \in DOMAIN got.framesets :
        SenderKeyIds(got.framesets[i].frames) # {} =>
            Tail(got.framesets[i].frames) = Tail(fs)
=============================================================================
