------------------------------ MODULE SnmpMsg ------------------------------
(***************************************************************************)
(* SNMP messages: the response in two passes, lengths first, then octets   *)
(* into a pbuf of that length (core/snmp/msg_out.c), and the decoding of a *)
(* request (core/snmp/msg_in.c).  A variable binding is [name, t, v]: an   *)
(* object identifier, a type and a value, which is a tuple: <<number>>,    *)
(* an identifier, or octets.  Tags are abstract octets.                    *)
(***************************************************************************)
EXTENDS Asn1

CONSTANTS public,      \* snmp_publiccommunity
          CommunityLen \* SNMP_COMMUNITY_STR_LEN

Tag == [INTEG |-> 2, OC_STR |-> 4, NUL |-> 5, OBJ_ID |-> 6, SEQ |-> 7, IPADDR |-> 8, COUNTER |-> 9,
        GAUGE |-> 10, TIMETICKS |-> 11, OPAQUE |-> 12, GET |-> 16, GETNEXT |-> 17, RESP |-> 18,
        SET |-> 19, TRAP |-> 20]
Unsigned == {"COUNTER", "GAUGE", "TIMETICKS"}
Status == [NOERROR |-> 0, TOOBIG |-> 1, NOSUCHNAME |-> 2, BADVALUE |-> 3, READONLY |-> 4, GENERROR |-> 5]

-----------------------------------------------------------------------------
(* Encoding.  A field has a tag, the length pass 0 counted for it, and the *)
(* octets pass 1 writes behind the length: none for a sequence.            *)
Field(t, len, os) == [tag |-> Tag[t], len |-> len, os |-> os, size |-> len]
Sequence(t, len)  == [tag |-> Tag[t], len |-> len, os |-> <<>>, size |-> 0]
Size(f) == 1 + snmp_asn1_enc_length_cnt(f.len) + f.size
Total(fields) == FoldLeft(LAMBDA n, f : n + Size(f), 0, fields)
Enclosed(t, fields) == <<Sequence(t, Total(fields))>> \o fields

S32(value) == Field("INTEG", snmp_asn1_enc_s32t_cnt(value),
                    snmp_asn1_enc_s32t(snmp_asn1_enc_s32t_cnt(value), value))
U32Field(t, value) == Field(t, snmp_asn1_enc_u32t_cnt(value),
                            snmp_asn1_enc_u32t(snmp_asn1_enc_u32t_cnt(value), value))
Oid(ident) == Field("OBJ_ID", snmp_asn1_enc_oid_cnt(ident), snmp_asn1_enc_oid(ident))
ValueField(t, v) ==
    CASE t = "INTEG" -> S32(v[1])
      [] t \in Unsigned -> U32Field(t, v[1])
      [] t = "OBJ_ID" -> Oid(v)
      [] OTHER -> Field(t, Len(v), v)
Varbind(vb) == Enclosed("SEQ", <<Oid(vb.name), ValueField(vb.t, vb.v)>>)
Varbinds(vbs) == FlattenSeq([i \in DOMAIN vbs |-> Varbind(vbs[i])])
snmp_varbind_list_sum(vbs) == Total(Enclosed("SEQ", Varbinds(vbs)))

(* The fields of a header, innermost length first: vb_len octets follow.   *)
PduFields(m) == <<S32(m.rid), S32(Status[m.status]), S32(m.index)>>
MsgFields == <<S32(0), Field("OC_STR", Len(public), public)>>
snmp_resp_header_sum(m, vb_len) ==
    LET pdulen == Total(PduFields(m)) + vb_len
        seqlen == Total(MsgFields) + Total(<<Sequence("RESP", pdulen)>>) + pdulen
    IN  [pdulen |-> pdulen, seqlen |-> seqlen, tot_len |-> Total(<<Sequence("SEQ", seqlen)>>) + seqlen]
snmp_resp_header_enc(m, rhl) ==
    <<Sequence("SEQ", rhl.seqlen)>> \o MsgFields \o <<Sequence("RESP", rhl.pdulen)>> \o PduFields(m)
(* Pass 1: each field at the sum of the sizes before it; what is never     *)
(* written keeps what the pbuf held.                                       *)
FieldOctets(f) == <<f.tag>> \o snmp_asn1_enc_length(f.len) \o f.os
Write(p, ofs, os) ==
    [i \in DOMAIN p |-> IF i > ofs /\ i <= ofs + Len(os) THEN os[i - ofs] ELSE p[i]]
Garbage == Radix - 1
WriteAll(fields, tot_len) ==
    FoldLeft(LAMBDA a, f : [p |-> Write(a.p, a.ofs, FieldOctets(f)), ofs |-> a.ofs + Size(f)],
             [p |-> [i \in 1..tot_len |-> Garbage], ofs |-> 0], fields).p
Encode(m, rhl, vbs) ==
    WriteAll(snmp_resp_header_enc(m, rhl) \o Enclosed("SEQ", Varbinds(vbs)), rhl.tot_len)

(* The message as ASN.1 defines it: every length that of what follows.     *)
TLV(tag, os) == <<tag>> \o snmp_asn1_enc_length(Len(os)) \o os
VarbindOctets(vb) ==
    TLV(Tag.SEQ, TLV(Tag.OBJ_ID, Oid(vb.name).os) \o TLV(Tag[vb.t], ValueField(vb.t, vb.v).os))
Message(version, community, pdu, m, vbs) ==
    TLV(Tag.SEQ, TLV(Tag.INTEG, S32(version).os) \o TLV(Tag.OC_STR, community)
        \o TLV(Tag[pdu], FlattenSeq([i \in 1..3 |-> TLV(Tag.INTEG, PduFields(m)[i].os)])
                         \o TLV(Tag.SEQ, FlattenSeq([i \in DOMAIN vbs |-> VarbindOctets(vbs[i])]))))

-----------------------------------------------------------------------------
(* Decoding.  Fetch is a type and a length at ofs: [ok, tag, len, at,      *)
(* next], the content from at to next.                                     *)
Fetched(tag, l, ofs) ==
    [ok |-> l.ok, tag |-> tag, len |-> l.v, at |-> ofs + 1 + l.used, next |-> ofs + 1 + l.used + l.v]
Fetch(p, ofs) == Fetched(snmp_asn1_dec_type(p, ofs), snmp_asn1_dec_length(p, ofs + 1), ofs)

(* snmp_pdu_header_check: err is "none" or the counter it increments; rt   *)
(* is set once the PDU is a request.                                       *)
Rejected(err, rt) == [err |-> err, rt |-> rt, rid |-> 0, status |-> 0, index |-> 0, ofs |-> 0]
Number(f, p) == IF f.ok /\ f.tag = Tag.INTEG THEN snmp_asn1_dec_s32t(p, f.at, f.len) ELSE ERR
Accepted(rt, rid, status, index, ofs) ==
    IF index.ok
    THEN [err |-> "none", rt |-> rt, rid |-> rid, status |-> status, index |-> index.v, ofs |-> ofs]
    ELSE [Rejected("parse", rt) EXCEPT !.status = status]
CheckIndex(p, rt, rid, status, f) == Accepted(rt, rid, status, Number(f, p), f.next)
CheckStatus(p, rt, rid, f, status) ==
    IF status.ok THEN CheckIndex(p, rt, rid, status.v, Fetch(p, f.next)) ELSE Rejected("parse", rt)
CheckRid(p, rt, rid, f) ==
    IF rid.ok THEN CheckStatus(p, rt, rid.v, f, Number(f, p)) ELSE Rejected("parse", rt)
CheckPduLen(p, rt, f, g) ==
    IF f.next # Len(p) THEN Rejected("parse", rt)
    ELSE CheckRid(p, rt, Number(g, p), Fetch(p, g.next))
CheckPdu(p, f) ==
    CASE ~ f.ok -> Rejected("parse", "none")
      [] f.ok /\ f.tag = Tag.GET -> CheckPduLen(p, "GET", f, Fetch(p, f.at))
      [] f.ok /\ f.tag = Tag.GETNEXT -> CheckPduLen(p, "GETNEXT", f, Fetch(p, f.at))
      [] f.ok /\ f.tag = Tag.SET -> CheckPduLen(p, "SET", f, Fetch(p, f.at))
      [] f.ok /\ f.tag = Tag.RESP -> Rejected("response", "none")
      [] f.ok /\ f.tag = Tag.TRAP -> Rejected("trap", "none")
      [] OTHER -> Rejected("parse", "none")
CheckCommunity(p, f, community) ==
    IF ~ community.ok THEN Rejected("parse", "none")
    ELSE IF community.v # public THEN Rejected("community", "none")
    ELSE CheckPdu(p, Fetch(p, f.next))
CheckOctets(p, f) ==
    IF ~ f.ok \/ f.tag # Tag.OC_STR THEN Rejected("parse", "none")
    ELSE CheckCommunity(p, f, snmp_asn1_dec_raw(p, f.at, f.len, CommunityLen))
CheckVersion(p, f, version) ==
    IF ~ version.ok THEN Rejected("parse", "none")
    ELSE IF version.v # 0 THEN Rejected("version", "none")
    ELSE CheckOctets(p, Fetch(p, f.next))
CheckNumber(p, f) == CheckVersion(p, f, Number(f, p))
CheckSequence(p, f) ==
    IF f.ok /\ f.next = Len(p) /\ f.tag = Tag.SEQ THEN CheckNumber(p, Fetch(p, f.at))
    ELSE Rejected("parse", "none")
snmp_pdu_header_check(p) == CheckSequence(p, Fetch(p, 0))

(* snmp_pdu_dec_varbindlist: [ok, vbs], vb_len the 16-bit rest to decode.  *)
(* A string may have as many octets as an octet counts.                    *)
TypeOf(tag) ==
    LET known == {t \in {"INTEG", "OC_STR", "OPAQUE", "NUL", "OBJ_ID", "IPADDR"} \cup Unsigned : Tag[t] = tag}
    IN  IF known = {} THEN "none" ELSE CHOOSE t \in known : TRUE
Boxed(r) == IF r.ok THEN OK(<<r.v>>) ELSE ERR
DecValue(p, f, t) ==
    CASE t = "INTEG" -> Boxed(snmp_asn1_dec_s32t(p, f.at, f.len))
      [] t \in Unsigned -> Boxed(snmp_asn1_dec_u32t(p, f.at, f.len))
      [] t \in {"OC_STR", "OPAQUE"} -> snmp_asn1_dec_raw(p, f.at, f.len, f.len % Radix)
      [] t = "NUL" -> OK(<<>>)
      [] t = "OBJ_ID" -> snmp_asn1_dec_oid(p, f.at, f.len)
      [] t = "IPADDR" -> IF f.len = 4 THEN snmp_asn1_dec_raw(p, f.at, f.len, 4) ELSE ERR
      [] OTHER -> ERR
Less(vb_len, n) == (vb_len - n) % (Radix * Radix)
NoList == [ok |-> FALSE, vbs |-> <<>>]
RECURSIVE DecVarbinds(_, _, _, _)
DecNext(p, ofs, f, vb_len, vbs, name, t, v) ==
    IF v.ok THEN DecVarbinds(p, f.next, Less(vb_len, f.next - ofs),
                             Append(vbs, [name |-> name, t |-> t, v |-> v.v]))
    ELSE NoList
DecBound(p, ofs, f, vb_len, vbs, name) ==
    IF name.ok /\ f.ok
    THEN DecNext(p, ofs, f, vb_len, vbs, name.v, TypeOf(f.tag), DecValue(p, f, TypeOf(f.tag)))
    ELSE NoList
DecName(p, ofs, f, vb_len, vbs) ==
    IF f.ok /\ f.tag = Tag.OBJ_ID
    THEN DecBound(p, ofs, Fetch(p, f.next), vb_len, vbs, snmp_asn1_dec_oid(p, f.at, f.len))
    ELSE NoList
DecPair(p, ofs, f, vb_len, vbs) ==
    IF f.ok /\ f.tag = Tag.SEQ /\ f.len > 0 /\ f.len <= vb_len
    THEN DecName(p, ofs, Fetch(p, f.at), vb_len, vbs)
    ELSE NoList
DecVarbinds(p, ofs, vb_len, vbs) ==
    IF vb_len = 0 THEN [ok |-> TRUE, vbs |-> vbs] ELSE DecPair(p, ofs, Fetch(p, ofs), vb_len, vbs)
DecList(p, f) == IF f.ok /\ f.tag = Tag.SEQ THEN DecVarbinds(p, f.at, f.len, <<>>) ELSE NoList
snmp_pdu_dec_varbindlist(p, ofs) == DecList(p, Fetch(p, ofs))

=============================================================================
