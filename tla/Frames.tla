------------------------------- MODULE Frames -------------------------------
(***************************************************************************)
(* Frames and their form on the wire: a TLV entry is a type (2 bytes), a   *)
(* length (3 bytes) and a value (clientlib/tlvhelper.c, generic_tlv_min.c, *)
(* frame.c and its subclasses).  Frames that transform the rest of their   *)
(* packet are in Wire.                                                     *)
(*                                                                         *)
(* A byte is a digit in Base, 256 in the code; every width is the code's.  *)
(* What encryption and compression yield is no digit: these bytes are the  *)
(* numbers from Base on.                                                   *)
(***************************************************************************)
EXTENDS Integers, SequencesExt

CONSTANTS
    Base,       \* values of a byte
    CksumTypes, \* the checksum types GLib knows
    CksumLength \* bytes of a checksum

ASSUME FramesAssumption ==
    /\ Base \in Nat /\ Base > 6 /\ CksumTypes \subseteq 0..(Base - 1)
    /\ CksumLength \in Nat /\ CksumLength > 1

HDRSZ == 5  \* GENERICTLV_HDRSZ, FRAME_INITSIZE

\* The subclass of Frame that stands for a type; frameinfo.py lists the types.
END == 0
SIG == 1
CRYPT == 2
COMPRESS == 3
REQID == 4

Class(type) ==
    CASE type = SIG                                                  -> "SignFrame"
      [] type = CRYPT                                                -> "CryptCurve25519"
      [] type = COMPRESS                                             -> "CompressFrame"
      [] type = REQID                                                -> "SeqnoFrame"
      [] type \in {7, 12, 14, 15, 16, 22, 23, 25}                    -> "IntFrame"
      [] type \in {8, 9, 17, 19, 20, 21, 24, 26, 27, 28, 29}         -> "CstringFrame"
      [] type \in {10, 11}                                           -> "AddrFrame"
      [] type = 13                                                   -> "IpPortFrame"
      [] type \in {END, 6, 30}                                       -> "Frame"
      [] OTHER                                                       -> "UnknownFrame"

-----------------------------------------------------------------------------
(* Integers, most significant byte first.                                  *)

Byte == 0..(Base - 1)

Digits(x, n) == [i \in 1..n |-> (x \div (Base ^ (n - i))) % Base]

\* An opaque byte, read as a number, is some byte.
Number(bytes) == FoldLeft(LAMBDA x, b : (x * Base) + (b % Base), 0, bytes)

Bad(n) == Base ^ n - 1

\* n bytes from position i on; what would lie past the end reads as TLV_BADn.
Get(bytes, i, n) ==
    IF i + n - 1 <= Len(bytes) THEN Number(SubSeq(bytes, i, i + n - 1)) ELSE Bad(n)

From(bytes, i) == SubSeq(bytes, i, Len(bytes))

\* Bytes i to j, as far as they exist.
Slice(bytes, i, j) == IF j <= Len(bytes) THEN SubSeq(bytes, i, j) ELSE From(bytes, i)

-----------------------------------------------------------------------------
(* TLV entries.  bytes starts at the entry and ends with the packet.       *)

TlvType(bytes) == Get(bytes, 1, 2)

TlvLen(bytes) == LET n == Get(bytes, 3, 3) IN IF n <= Len(bytes) THEN n ELSE Bad(3)

TlvValue(bytes) == Slice(bytes, HDRSZ + 1, HDRSZ + TlvLen(bytes))

Header(type, length) == Digits(type, 2) \o Digits(length, 3)

\* get_generic_tlv_first
Fits(bytes) == Len(bytes) >= HDRSZ /\ HDRSZ + TlvLen(bytes) <= Len(bytes)

\* The walk of is_valid_generic_tlv_packet from one entry to the next.
RECURSIVE EntriesFit(_)
EntriesFit(bytes) == bytes = <<>> \/ (Fits(bytes) /\ EntriesFit(From(bytes, HDRSZ + TlvLen(bytes) + 1)))

\* is_valid_generic_tlv_packet.  Entries must follow each other to the end, and the
\* first be a signature; but a first one that is too long passes.
IsValidPacket(bytes) ==
    /\ Len(bytes) >= HDRSZ
    /\ Fits(bytes) => TlvType(bytes) = SIG /\ EntriesFit(bytes)

-----------------------------------------------------------------------------
(* The value of a frame, as updatedata writes it.                          *)

IntSizes == {1, 2, 3, 4, 8}

\* Mutant: the queue id is written over the end of the request id.
SeqnoValueOverlaid(f) == Digits(f.session, 4) \o SubSeq(Digits(f.reqid, 8), 1, 6) \o Digits(f.qid, 2) \o <<0, 0>>

SeqnoValue(f) == Digits(f.session, 4) \o Digits(f.reqid, 8) \o Digits(f.qid, 2)

IntValue(f) == Digits(f.int, f.size)

AddrValue(f) == Digits(f.family, 2) \o f.addr

IpPortValue(f) == Digits(f.port, 2) \o Digits(f.family, 2) \o f.addr

Value(f) ==
    CASE Class(f.type) = "IntFrame"    -> IntValue(f)
      [] Class(f.type) = "SeqnoFrame"  -> SeqnoValue(f)
      [] Class(f.type) = "AddrFrame"   -> AddrValue(f)
      [] Class(f.type) = "IpPortFrame" -> IpPortValue(f)
      [] OTHER                         -> f.bytes

Marshalled(f) == Header(f.type, Len(Value(f))) \o Value(f)

-----------------------------------------------------------------------------
(* Constructors: the frame an entry stands for, and what follows it.       *)

Refused == [frame |-> [type |-> -1], rest |-> <<>>]

\* dataspace() of the new frame says where the next one starts.
Read(bytes, frame, length) ==
    IF HDRSZ + length <= Len(bytes)
    THEN [frame |-> frame, rest |-> From(bytes, HDRSZ + length + 1)]
    ELSE Refused

ADDR_FAMILY_IPV4 == 1
ADDR_FAMILY_IPV6 == 2
ADDR_FAMILY_802  == 6

AddrSizes(family) ==
    CASE family = ADDR_FAMILY_IPV4 -> {4}
      [] family = ADDR_FAMILY_IPV6 -> {16}
      [] family = ADDR_FAMILY_802  -> {6, 8}
      [] family = 0 \/ family >= 32 -> {}
      [] OTHER                     -> 4..32

\* The length of an integer frame is kept in two bytes.
IntRead(bytes) ==
    LET n == TlvLen(bytes) % Base ^ 2 IN
    IF n \in IntSizes
    THEN Read(bytes, [type |-> TlvType(bytes), size |-> n, int |-> Get(bytes, HDRSZ + 1, n)], n)
    ELSE Refused

SeqnoRead(bytes) ==
    IF TlvLen(bytes) % Base ^ 2 = 14
    THEN Read(bytes, [type |-> TlvType(bytes), session |-> Get(bytes, HDRSZ + 1, 4),
                      reqid |-> Get(bytes, HDRSZ + 5, 8), qid |-> Get(bytes, HDRSZ + 13, 2)], 14)
    ELSE Refused

AddrRead(bytes) ==
    LET family == Get(bytes, HDRSZ + 1, 2) IN
    IF TlvLen(bytes) - 2 \in AddrSizes(family)
    THEN Read(bytes, [type |-> TlvType(bytes), family |-> family, addr |-> From(TlvValue(bytes), 3)],
              TlvLen(bytes))
    ELSE Refused

\* _ipportframe_default_isvalid
IpPortIsValid(bytes) ==
    /\ Get(bytes, HDRSZ + 1, 2) # 0
    /\ LET family == Get(bytes, HDRSZ + 3, 2) IN
       family \in {ADDR_FAMILY_IPV4, ADDR_FAMILY_IPV6} /\ TlvLen(bytes) - 4 \in AddrSizes(family)

IpPortRead(bytes) ==
    IF IpPortIsValid(bytes)
    THEN Read(bytes, [type |-> TlvType(bytes), port |-> Get(bytes, HDRSZ + 1, 2),
                      family |-> Get(bytes, HDRSZ + 3, 2), addr |-> From(TlvValue(bytes), 5)],
              TlvLen(bytes))
    ELSE Refused

\* Frame, CstringFrame and UnknownFrame keep the value as it is.
BinaryRead(bytes) ==
    IF TlvLen(bytes) # Bad(3)
    THEN Read(bytes, [type |-> TlvType(bytes), bytes |-> TlvValue(bytes)], TlvLen(bytes))
    ELSE Refused

SIGNTYPE_GLIB == 1

\* The checksum itself is not looked at.
SignRead(bytes) ==
    LET major == Get(bytes, HDRSZ + 1, 1)
        minor == Get(bytes, HDRSZ + 2, 1)
    IN  IF TlvLen(bytes) > 2 /\ major = SIGNTYPE_GLIB /\ minor \in CksumTypes
        THEN Read(bytes, [type |-> SIG, minor |-> minor, length |-> TlvLen(bytes)], TlvLen(bytes))
        ELSE Refused

PlainRead(bytes) ==
    CASE Class(TlvType(bytes)) = "SignFrame"   -> SignRead(bytes)
      [] Class(TlvType(bytes)) = "IntFrame"    -> IntRead(bytes)
      [] Class(TlvType(bytes)) = "SeqnoFrame"  -> SeqnoRead(bytes)
      [] Class(TlvType(bytes)) = "AddrFrame"   -> AddrRead(bytes)
      [] Class(TlvType(bytes)) = "IpPortFrame" -> IpPortRead(bytes)
      [] OTHER                                 -> BinaryRead(bytes)

=============================================================================
