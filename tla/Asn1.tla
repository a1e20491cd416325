------------------------------- MODULE Asn1 -------------------------------
(***************************************************************************)
(* The ASN.1 codec of the SNMP agent (core/snmp/asn1_enc.c, asn1_dec.c).   *)
(* A message is a sequence of octets; the walk along its pbuf chain is a   *)
(* position in it, ofs counting from 0 as in the code.  An octet has Radix *)
(* values (256 in the code): Half is 0x80, and an object identifier has    *)
(* Half values per octet.  A 32-bit integer has four octets.               *)
(***************************************************************************)
EXTENDS Integers, Sequences, FiniteSets, SequencesExt

CONSTANTS Radix,       \* values of an octet, even
          Compress,    \* 40: the first two sub-identifiers share an octet
          ObjIdLen     \* LWIP_SNMP_OBJ_ID_LEN

Half   == Radix \div 2
Pow(b) == [n \in 0..6 |-> IF n = 0 THEN 1 ELSE b^n]
U32    == Pow(Radix)[4]
Signed(x) == IF x >= U32 \div 2 THEN x - U32 ELSE x
(* Octets of Half values that hold 32 bits: 5 in the code.                 *)
Groups == CHOOSE g \in 1..6 : Pow(Half)[g] >= U32 /\ Pow(Half)[g - 1] < U32
ERR    == [ok |-> FALSE, v |-> 0]
OK(v)  == [ok |-> TRUE, v |-> v]

-----------------------------------------------------------------------------
(* Octet counts, and the octets.                                           *)
length_cnt_off(length) == IF length <= Half THEN 1 ELSE IF length < Radix THEN 2 ELSE 3
snmp_asn1_enc_length_cnt(length) ==
    IF length < Half THEN 1 ELSE IF length < Radix THEN 2 ELSE 3
snmp_asn1_enc_length(length) ==
    IF length < Half THEN <<length>>
    ELSE IF length < Radix THEN <<Half + 1, length>>
    ELSE <<Half + 2, length \div Radix, length % Radix>>

Octets(value, n) == [k \in 1..n |-> (value \div Pow(Radix)[n - k]) % Radix]
FirstBelow(value, limits) == CHOOSE n \in 1..5 : /\ n > Len(limits) \/ value < limits[n]
                                                 /\ \A m \in 1..(n - 1) : value >= limits[m]
Limits(n) == [k \in 1..n |-> Half * Pow(Radix)[k - 1]]
snmp_asn1_enc_u32t_cnt(value) == IF value < Half * Pow(Radix)[3] THEN FirstBelow(value, Limits(4)) ELSE 5
snmp_asn1_enc_u32t(octets_needed, value) ==
    IF octets_needed = 5 THEN <<0>> \o Octets(value, 4) ELSE Octets(value, octets_needed)
snmp_asn1_enc_s32t_cnt(value) ==
    LET magnitude == IF value < 0 THEN -value - 1 ELSE value
    IN  IF magnitude < Half * Pow(Radix)[2] THEN FirstBelow(magnitude, Limits(3)) ELSE 4
snmp_asn1_enc_s32t(octets_needed, value) == Octets(value, octets_needed)

(* A sub-identifier: the counter stops at the first shift that leaves      *)
(* nothing positive; the encoder starts at the first octet that is not 0.  *)
SubCnt(sub_id) ==
    IF sub_id < Half THEN 1
    ELSE CHOOSE n \in 2..Groups : Pow(Half)[n] > sub_id /\ Pow(Half)[n - 1] <= sub_id
SubCode(sub_id, k) == (sub_id \div Pow(Half)[k]) % Radix
SubFirst(sub_id) ==
    LET nonzero == {k \in 1..(Groups - 1) : SubCode(sub_id, k) # 0}
    IN  IF nonzero = {} THEN 0 ELSE CHOOSE k \in nonzero : \A j \in nonzero : j <= k
SubOctets(sub_id, first) ==
    [j \in 1..(first + 1) |-> IF j > first THEN sub_id % Half
                              ELSE Half + (SubCode(sub_id, first - j + 1) % Half)]
snmp_asn1_enc_oid_cnt(ident) ==
    FoldLeft(LAMBDA n, sub_id : n + SubCnt(sub_id), IF Len(ident) > 1 THEN 1 ELSE 0,
             IF Len(ident) > 1 THEN SubSeq(ident, 3, Len(ident)) ELSE ident)
(* Nothing is written for fewer than two sub-identifiers.                  *)
snmp_asn1_enc_oid(ident) ==
    IF Len(ident) < 2 THEN <<>>
    ELSE <<(ident[1] * Compress + ident[2]) % Radix>>
         \o FlattenSeq([i \in 1..(Len(ident) - 2) |-> SubOctets(ident[i + 2], SubFirst(ident[i + 2]))])

-----------------------------------------------------------------------------
(* Decoding at ofs.                                                        *)
Has(p, ofs, n) == ofs + n <= Len(p)
snmp_asn1_dec_type(p, ofs) == IF Has(p, ofs, 1) THEN p[ofs + 1] ELSE 0

(* [ok, v, used]: the length and the octets it takes.  The indefinite form *)
(* is as long as the way to the end of the first two zero octets.          *)
Zeros(p, ofs) == {k \in (ofs + 3)..Len(p) : p[k] = 0 /\ p[k - 1] = 0}
Length(r, used) == [ok |-> r.ok, v |-> r.v, used |-> used]
snmp_asn1_dec_length(p, ofs) ==
    CASE ~ Has(p, ofs, 1) -> Length(ERR, 0)
      [] Has(p, ofs, 1) /\ p[ofs + 1] < Half -> Length(OK(p[ofs + 1]), 1)
      [] Has(p, ofs, 1) /\ p[ofs + 1] = Half ->
            IF Zeros(p, ofs) = {} THEN Length(ERR, 0)
            ELSE Length(OK((CHOOSE k \in Zeros(p, ofs) : \A j \in Zeros(p, ofs) : k <= j) - ofs - 1), 1)
      [] Has(p, ofs, 1) /\ p[ofs + 1] = Half + 1 ->
            IF Has(p, ofs, 2) THEN Length(OK(p[ofs + 2]), 2) ELSE Length(ERR, 0)
      [] Has(p, ofs, 1) /\ p[ofs + 1] = Half + 2 ->
            IF Has(p, ofs, 3) THEN Length(OK(p[ofs + 2] * Radix + p[ofs + 3]), 3) ELSE Length(ERR, 0)
      [] OTHER -> Length(ERR, 1 + p[ofs + 1] - Half)

Value(p, ofs, len) == FoldLeft(LAMBDA v, o : (v * Radix + o) % U32, 0, SubSeq(p, ofs + 1, ofs + len))
snmp_asn1_dec_u32t(p, ofs, len) ==
    IF len \in 1..5 /\ Has(p, ofs, len) /\ p[ofs + 1] < Half THEN OK(Value(p, ofs, len)) ELSE ERR
snmp_asn1_dec_s32t(p, ofs, len) ==
    IF len \in 1..4 /\ Has(p, ofs, len)
    THEN OK(IF p[ofs + 1] < Half THEN Value(p, ofs, len)
            ELSE IF len = 4 THEN Signed(Value(p, ofs, 4)) ELSE Value(p, ofs, len) - Pow(Radix)[len])
    ELSE ERR

(* Sub-identifiers of os from sub_id on; a continuation octet at the end,  *)
(* or more than ObjIdLen of them, is an error.                             *)
RECURSIVE DecSubs(_, _, _)
DecSubs(os, sub_id, oid) ==
    IF os = <<>> THEN OK(oid)
    ELSE IF Len(oid) >= ObjIdLen THEN ERR
    ELSE IF Head(os) < Half
         THEN DecSubs(Tail(os), 0, Append(oid, Signed((sub_id * Half + Head(os)) % U32)))
    ELSE IF Len(os) = 1 THEN ERR
    ELSE DecSubs(Tail(os), (sub_id * Half + Head(os) - Half) % U32, oid)
Prefix(o) ==
    CASE o = Compress + 3 -> <<1, 3>>
      [] o # Compress + 3 /\ o < Compress -> <<0, o>>
      [] o # Compress + 3 /\ o >= Compress /\ o < 2 * Compress -> <<1, o - Compress>>
      [] OTHER -> <<2, o - 2 * Compress>>
snmp_asn1_dec_oid(p, ofs, len) ==
    IF ~ Has(p, ofs, 1) THEN ERR
    ELSE IF len = 0 THEN OK(<<>>)
    ELSE IF ~ Has(p, ofs, len) THEN ERR
    ELSE DecSubs(SubSeq(p, ofs + 2, ofs + len), 0, Prefix(p[ofs + 1]))

snmp_asn1_dec_raw(p, ofs, len, raw_len) ==
    IF len = 0 THEN OK(<<>>)
    ELSE IF Has(p, ofs, len) /\ raw_len >= len THEN OK(SubSeq(p, ofs + 1, ofs + len)) ELSE ERR

=============================================================================
