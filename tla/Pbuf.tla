-------------------------------- MODULE Pbuf --------------------------------
(* core/pbuf.c: packet buffers, alone and in chains, with reference counts. *)
(*                                                                          *)
(* heap[b] is the pbuf in memory block b, or Freed; "data" is its payload   *)
(* (len is its length) and "room" the bytes before the payload that         *)
(* pbuf_header may still claim.  held[b] counts the references the callers  *)
(* own.  Callers follow the notes of pbuf.c: they cut, shrink and append at *)
(* the head of a chain, and put a pbuf into one chain only.                 *)
EXTENDS Integers, Sequences, SequencesExt, FiniteSets, FiniteSetsExt

CONSTANTS Blocks,              \* memory blocks, a set of positive integers
          PBUF_POOL_BUFSIZE,   \* payload bytes of a pool pbuf
          HLEN,                \* HLEN[layer]: header room of the layer
          Packets,             \* Packets[layer, type]: data the callers allocate
          Needles,             \* what they search for
          MaxLen,              \* longest read and new length
          MaxRefs,             \* most references a caller takes
          MaxEdits             \* calls that change a payload, per behaviour

VARIABLES heap, held, edits

pbufvars == <<heap, held, edits>>

NULL == 0

Pbuf(type, data, room, tot, next) ==
  [type |-> type, data |-> data, room |-> room, tot_len |-> tot, next |-> next, ref |-> 1]
Freed == [Pbuf("NONE", <<>>, 0, 0, NULL) EXCEPT !.ref = 0]
Live(h) == {b \in Blocks : h[b] # Freed}

(* The blocks of the chain that starts at b. *)
RECURSIVE Chain(_, _)
Chain(h, b) == IF b = NULL THEN <<>> ELSE <<b>> \o Chain(h, h[b].next)

(* The packet: the payload of the whole chain. *)
Packet(h, b) ==
  LET c == Chain(h, b) IN FlattenSeq([i \in DOMAIN c |-> h[c[i]].data])

Len_(h, b) == Len(h[b].data)
Preds(h, b) == {p \in Live(h) : h[p].next = b}
IsHead(h, b) == Preds(h, b) = {}

(* The pieces a pool allocation of "data" is cut into: the first block has  *)
(* room for the headers.                                                    *)
RECURSIVE Pieces(_, _)
Pieces(data, size) ==
  IF Len(data) <= size THEN <<data>>
  ELSE <<SubSeq(data, 1, size)>>
         \o Pieces(SubSeq(data, size + 1, Len(data)), PBUF_POOL_BUFSIZE)

(* pbuf_alloc: the free blocks a request takes, in order; too few and the   *)
(* chain so far is freed again.                                             *)
Needed(layer, data, type) ==
  IF type = "POOL" THEN Pieces(data, PBUF_POOL_BUFSIZE - HLEN[layer]) ELSE <<data>>
pbuf_alloc(h, layer, data, type) ==
  LET parts == Needed(layer, data, type)
      free  == SetToSortSeq(Blocks \ Live(h), <)
      Left(i) == Len(FlattenSeq(SubSeq(parts, i, Len(parts))))
  IN  IF Len(parts) > Len(free) THEN [heap |-> h, p |-> NULL]
      ELSE [p |-> free[1],
            heap |-> [b \in Blocks |->
              IF \E i \in DOMAIN parts : free[i] = b
                THEN LET i == CHOOSE i \in DOMAIN parts : free[i] = b
                     IN  Pbuf(type, parts[i],
                              IF i = 1 /\ type \in {"RAM", "POOL"} THEN HLEN[layer] ELSE 0,
                              Left(i), IF i < Len(parts) THEN free[i + 1] ELSE NULL)
                ELSE h[b]]]

(* Dereference b; what drops to zero is freed, and its successor in turn    *)
(* dereferenced.                                                            *)
RECURSIVE pbuf_free(_, _)
pbuf_free(h, b) ==
  IF b = NULL THEN h
  ELSE IF h[b].ref > 1 THEN [h EXCEPT ![b].ref = @ - 1]
  ELSE pbuf_free([h EXCEPT ![b] = Freed], h[b].next)

pbuf_ref(h, b) == [h EXCEPT ![b].ref = @ + 1]

(* As pbuf_cat would be if it forgot the total of the last pbuf. *)
pbuf_cat_last(h, p, t) ==
  LET c == Chain(h, p) IN
  [b \in Blocks |->
     IF b = Last(c) THEN [h[b] EXCEPT !.next = t]
     ELSE IF b \in ToSet(c) THEN [h[b] EXCEPT !.tot_len = @ + h[t].tot_len] ELSE h[b]]
(* Append t to the chain at p; t's reference is taken over. *)
pbuf_cat(h, p, t) ==
  LET c == Chain(h, p) IN
  [b \in Blocks |->
     IF b \notin ToSet(c) THEN h[b]
     ELSE [h[b] EXCEPT !.tot_len = @ + h[t].tot_len,
                       !.next = IF b = Last(c) THEN t ELSE @]]

(* As pbuf_chain would be if it forgot that the caller keeps t. *)
pbuf_chain_unref(h, p, t) == pbuf_cat(h, p, t)
pbuf_chain(h, p, t) == pbuf_ref(pbuf_cat(h, p, t), t)

(* Cut p off its successors; the reference p held on them is dropped. *)
pbuf_dechain(h, p) ==
  LET q == h[p].next
      g == [h EXCEPT ![p].next = NULL, ![p].tot_len = Len_(h, p),
                     ![q].tot_len = h[p].tot_len - Len_(h, p)]
  IN  IF q = NULL THEN h ELSE pbuf_free(g, q)

(* The last pbuf of c that a packet of n bytes still needs, and what of it. *)
RECURSIVE LastKept(_, _, _, _)
LastKept(h, c, i, n) ==
  IF n > Len_(h, c[i]) THEN LastKept(h, c, i + 1, n - Len_(h, c[i])) ELSE <<i, n>>

pbuf_realloc(h, p, n) ==
  IF n >= h[p].tot_len THEN h
  ELSE LET c == Chain(h, p)
           k == LastKept(h, c, 1, n)
           q == c[k[1]]
           g == [b \in Blocks |->
                   IF b = q THEN [h[b] EXCEPT !.data = SubSeq(@, 1, k[2]),
                                              !.tot_len = k[2], !.next = NULL]
                   ELSE IF \E i \in 1..(k[1] - 1) : c[i] = b
                     THEN [h[b] EXCEPT !.tot_len = @ + n - h[p].tot_len] ELSE h[b]]
       IN  pbuf_free(g, h[q].next)

(* pbuf_header: claim inc bytes in front of the payload (what they hold is  *)
(* left as is: modelled as the bytes "was"), or give up -inc of them.       *)
pbuf_header(h, p, inc, was) ==
  IF inc < 0
    THEN IF -inc > Len_(h, p) THEN h
         ELSE [h EXCEPT ![p].data = SubSeq(@, 1 - inc, Len(@)),
                        ![p].room = IF h[p].type \in {"RAM", "POOL"} THEN @ - inc ELSE 0,
                        ![p].tot_len = @ + inc]
    ELSE IF h[p].type \notin {"RAM", "POOL"} \/ h[p].room < inc THEN h
         ELSE [h EXCEPT ![p].data = was \o @, ![p].room = @ - inc, ![p].tot_len = @ + inc]

-----------------------------------------------------------------------------
(* Reading: pbuf_copy_partial, pbuf_get_at, pbuf_memcmp, pbuf_memfind walk  *)
(* the chain.                                                               *)
RECURSIVE pbuf_copy_partial(_, _, _, _)
pbuf_copy_partial(h, b, len, offset) ==
  IF len = 0 \/ b = NULL THEN <<>>
  ELSE IF offset # 0 /\ offset >= Len_(h, b)
    THEN pbuf_copy_partial(h, h[b].next, len, offset - Len_(h, b))
  ELSE LET n == Min({Len_(h, b) - offset, len})
       IN  SubSeq(h[b].data, offset + 1, offset + n)
             \o pbuf_copy_partial(h, h[b].next, len - n, 0)

RECURSIVE Locate(_, _, _)
Locate(h, b, offset) ==
  IF b # NULL /\ Len_(h, b) <= offset THEN Locate(h, h[b].next, offset - Len_(h, b))
  ELSE <<b, offset>>

pbuf_get_at(h, b, offset) ==
  LET l == Locate(h, b, offset)
  IN  IF l[1] = NULL THEN 0 ELSE h[l[1]].data[l[2] + 1]

NotFound == 65535

pbuf_memcmp(h, b, offset, mem) ==
  LET l == Locate(h, b, offset)
      differ == {i \in DOMAIN mem : pbuf_get_at(h, l[1], l[2] + i - 1) # mem[i]}
  IN  IF l[1] = NULL THEN NotFound ELSE IF differ = {} THEN 0 ELSE Min(differ)

(* After a mismatch the search goes on behind the byte that differed. *)
RECURSIVE Search(_, _, _, _)
Search(h, b, mem, i) ==
  IF i > h[b].tot_len - Len(mem) THEN NotFound
  ELSE LET plus == pbuf_memcmp(h, b, i, mem)
       IN  IF plus = 0 THEN i ELSE Search(h, b, mem, i + plus)
pbuf_memfind(h, b, mem, start) ==
  IF h[b].tot_len >= Len(mem) + start THEN Search(h, b, mem, start) ELSE NotFound

(* pbuf_copy of the chain "from" into the chain "to", piece by piece.  An   *)
(* empty last piece finds "to" at its end already: whatever its len reads   *)
(* as then, no byte is copied.                                              *)
RECURSIVE pbuf_copy(_, _, _, _, _)
pbuf_copy(h, to, from, offset_to, offset_from) ==
  IF from = NULL \/ to = NULL THEN h
  ELSE LET n == Min({Len_(h, to) - offset_to, Len_(h, from) - offset_from})
           g == [h EXCEPT ![to].data = SubSeq(@, 1, offset_to)
                   \o SubSeq(h[from].data, offset_from + 1, offset_from + n)
                   \o SubSeq(@, offset_to + n + 1, Len(@))]
           t == offset_to + n = Len_(h, to)
           f == offset_from + n >= Len_(h, from)
       IN  pbuf_copy(g, IF t THEN h[to].next ELSE to, IF f THEN h[from].next ELSE from,
                     IF t THEN 0 ELSE offset_to + n, IF f THEN 0 ELSE offset_from + n)

-----------------------------------------------------------------------------
(* The callers. *)
Init_Pbuf == heap = [b \in Blocks |-> Freed] /\ held = [b \in Blocks |-> 0] /\ edits = 0

(* pbuf_alloc followed by pbuf_take of the data. *)
Alloc ==
  \E lt \in DOMAIN Packets : \E data \in Packets[lt] :
    LET r == pbuf_alloc(heap, lt[1], data, lt[2])
    IN  /\ r.p # NULL
        /\ heap' = r.heap /\ held' = [held EXCEPT ![r.p] = 1]
        /\ UNCHANGED edits

Edit == edits < MaxEdits /\ edits' = edits + 1
Mine(b) == held[b] > 0

Free == \E b \in Blocks :
  /\ Mine(b) /\ UNCHANGED edits
  /\ heap' = pbuf_free(heap, b) /\ held' = [held EXCEPT ![b] = @ - 1]
Ref == \E b \in Blocks :
  /\ Mine(b) /\ held[b] < MaxRefs /\ UNCHANGED edits
  /\ heap' = pbuf_ref(heap, b) /\ held' = [held EXCEPT ![b] = @ + 1]

Joinable(p, t) ==
  /\ Mine(p) /\ Mine(t) /\ p # t /\ IsHead(heap, p) /\ IsHead(heap, t)
  /\ UNCHANGED edits
Cat == \E p, t \in Blocks :
  Joinable(p, t) /\ heap' = pbuf_cat(heap, p, t) /\ held' = [held EXCEPT ![t] = @ - 1]
Joined == \E p, t \in Blocks :
  Joinable(p, t) /\ heap' = pbuf_chain(heap, p, t) /\ UNCHANGED held
Dechain == \E p \in Blocks :
  /\ Mine(p) /\ IsHead(heap, p) /\ heap[p].next # NULL /\ UNCHANGED edits
  /\ heap' = pbuf_dechain(heap, p) /\ UNCHANGED held
Realloc == \E p \in Blocks, n \in 0..MaxLen :
  /\ Mine(p) /\ IsHead(heap, p) /\ Edit
  /\ heap' = pbuf_realloc(heap, p, n) /\ UNCHANGED held
Header == \E p \in Blocks, inc \in {-1, 1} :
  /\ Mine(p) /\ IsHead(heap, p) /\ Edit
  /\ heap' = pbuf_header(heap, p, inc, [i \in 1..inc |-> 0]) /\ UNCHANGED held

(* pbuf_coalesce: one RAM pbuf with the packet, or the old chain if there   *)
(* is no memory.                                                            *)
Coalesce == \E p \in Blocks, layer \in DOMAIN HLEN :
  /\ Mine(p) /\ IsHead(heap, p) /\ heap[p].next # NULL /\ Edit
  /\ LET blank == [i \in 1..heap[p].tot_len |-> 0]
         r == pbuf_alloc(heap, layer, blank, "RAM")
     IN  /\ r.p # NULL
         /\ heap' = pbuf_free(pbuf_copy(r.heap, r.p, p, 0, 0), p)
         /\ held' = [held EXCEPT ![p] = @ - 1, ![r.p] = 1]

Next_Pbuf == Alloc \/ Free \/ Ref \/ Cat \/ Joined \/ Dechain \/ Realloc \/ Header \/ Coalesce

-----------------------------------------------------------------------------
(* "The reference counter of a pbuf equals the number of pointers that      *)
(* refer to the pbuf" (pbuf_free): the callers' references and the chain    *)
(* links; nothing points to freed memory, and nothing is lost.              *)
RefsCounted ==
  \A b \in Blocks :
    /\ heap[b] # Freed => /\ heap[b].ref = held[b] + Cardinality(Preds(heap, b))
                          /\ heap[b].ref > 0
                          /\ heap[b].next # NULL => heap[heap[b].next] # Freed
    /\ heap[b] = Freed => held[b] = 0

(* Every pbuf's tot_len is its own length plus its successor's tot_len, the *)
(* invariant pbuf_dechain asserts; reading, copying and shrinking a chain   *)
(* give the bytes of the packet, whatever its pieces, and what a search     *)
(* finds is an occurrence.                                                  *)
PacketsWhole ==
  \A b \in Live(heap) :
    /\ heap[b].tot_len = Len_(heap, b)
         + (IF heap[b].next = NULL THEN 0 ELSE heap[heap[b].next].tot_len)
    /\ LET w == Packet(heap, b) IN
       \A o \in 0..Len(w), n \in 0..MaxLen :
         /\ pbuf_copy_partial(heap, b, n, o) = SubSeq(w, o + 1, Min({o + n, Len(w)}))
         /\ pbuf_get_at(heap, b, o) = IF o < Len(w) THEN w[o + 1] ELSE 0
         /\ IsHead(heap, b) =>
              Packet(pbuf_realloc(heap, b, n), b) = SubSeq(w, 1, Min({n, Len(w)}))
    /\ LET r == pbuf_alloc(heap, "RAW", [i \in 1..heap[b].tot_len |-> 0], "RAM")
       IN  r.p # NULL =>
             pbuf_copy(r.heap, r.p, b, 0, 0)[r.p].data = Packet(heap, b)
    /\ \A mem \in Needles :
         LET i == pbuf_memfind(heap, b, mem, 0)
         IN  i # NotFound => SubSeq(Packet(heap, b), i + 1, i + Len(mem)) = mem

(* "0xFFFF if substr was not found in p or the index where it was found"    *)
(* (pbuf_memfind): an occurrence is found if there is one.                  *)
FindsOccurrence ==
  \A b \in Live(heap), mem \in Needles :
    LET w == Packet(heap, b)
        at == {i \in 0..(Len(w) - Len(mem)) : SubSeq(w, i + 1, i + Len(mem)) = mem}
    IN  pbuf_memfind(heap, b, mem, 0) = IF at = {} THEN NotFound ELSE Min(at)

Spec_Pbuf == Init_Pbuf /\ [][Next_Pbuf]_pbufvars
=============================================================================
