-------------------------- MODULE CodeInfo_proofs --------------------------
(***************************************************************************)
(* What the life of a batch promises, for every field size, code, number   *)
(* and length of packets and every content: the theorems rest on the       *)
(* algebra of Fec_proofs and on one invariant from InitFec to ClearInfo.   *)
(***************************************************************************)
EXTENDS CodeInfo, Fec_proofs

-----------------------------------------------------------------------------
(* What holds of a batch from its first packet to ClearInfo.               *)

Packet == [Below(MaxLen) -> Elem]
Pushed == IF phase = "pop" THEN enc.k ELSE enc.cur_ind

\* The encoder follows the order of its calls, and its code is one of Codes.
EncoderInv ==
  /\ enc \in [k : Nat, n : Nat, sz : Nat, cur_ind : Nat, lens : Seq(Lens), original : Seq(Packet),
              src : Seq(Packet)]
  /\ phase \in {"push", "encode", "pop"}
  /\ Len(enc.lens) = Pushed /\ Len(enc.original) = Pushed /\ Len(enc.src) = Pushed
  /\ phase # "push" \/ enc.cur_ind # 0 => gf_pc[sender] = "ready" /\ <<enc.k, enc.n>> \in Codes
  /\ phase = "push" /\ enc.cur_ind # 0 => enc.cur_ind < enc.k
  /\ phase = "encode" => enc.cur_ind = enc.k
  /\ phase = "pop" => enc.cur_ind <= enc.n

\* The size is that of the longest packet, and the buffers hold the packets up to their lengths.
SizeInv ==
  /\ enc.sz <= MaxLen
  /\ \A i \in 1 .. Pushed :
       enc.lens[i] <= enc.sz /\ \A w \in Below(enc.lens[i]) : enc.original[i][w] = enc.src[i][w]
  /\ Pushed = 0 => enc.sz = 0
  /\ Pushed # 0 => \E i \in 1 .. Pushed : enc.lens[i] = enc.sz

Sources == [i \in Below(enc.k) |-> enc.original[i + 1]]
Encoded == [i \in Below(enc.n) |-> fec_encode(fec_new(enc.k, enc.n), enc.k, Sources, i, enc.sz)]
Index == [i \in Below(enc.k) |-> dec.inds[i + 1]]
Twice == Repeats(Index, enc.k)
Delivered == {dec.batch[i] : i \in 1 .. enc.k}
Arrived == {coded[ind] : ind \in Received}

\* The decoder holds packets as they were encoded; after DecodeBatch what they were made from, or
\* still the same packets, when one of them was there twice.
DecoderInv ==
  /\ dec = [inds |-> dec.inds, batch |-> dec.batch, cur_ind |-> dec.cur_ind, done |-> dec.done]
  /\ dec.done \in BOOLEAN
  /\ phase # "pop" => dec = ClearedDecoder
  /\ phase = "pop" =>
       /\ coded = Encoded
       /\ dec.inds \in Seq(Below(enc.n)) /\ Len(dec.inds) <= enc.k
       /\ ~dec.done =>
            /\ dec.cur_ind = Len(dec.inds)
            /\ dec.batch \in Seq({coded[i] : i \in Below(enc.n)}) /\ Len(dec.batch) = Len(dec.inds)
            /\ \A i \in 1 .. Len(dec.inds) : dec.batch[i] = coded[dec.inds[i]]
       /\ dec.done => Len(dec.inds) = enc.k
       /\ dec.done /\ Twice => Delivered = Arrived
       /\ dec.done /\ ~Twice =>
            \A i \in Below(enc.k), w \in Below(enc.sz) : dec.batch[i + 1][w] = enc.original[i + 1][w]

CodeInv == AloneInv(sender) /\ EncoderInv /\ SizeInv /\ DecoderInv

\* The tables are read-only to the batch.
LEMMA MatrixStays ==
  ASSUME UNCHANGED gfVars, NEW k, NEW n PROVE fec_new(k, n)' = fec_new(k, n)
BY DEF gfVars, tables, fec_new, Vandermonde, matmul, invert_vdm, Coefficients, Division, gf_mul

LEMMA EncodedStays ==
  ASSUME UNCHANGED gfVars, enc'.k = enc.k, enc'.n = enc.n, enc'.sz = enc.sz, enc'.original = enc.original
  PROVE  Encoded' = Encoded
BY DEF gfVars, tables, Encoded, Sources, fec_encode, fec_new, Vandermonde, matmul, invert_vdm, Coefficients, Division, gf_mul

\* Moving on to the next packet leaves what the decoder holds as it was.
LEMMA DecoderStays ==
  ASSUME DecoderInv, UNCHANGED <<gfVars, coded, phase>>, enc'.k = enc.k, enc'.n = enc.n, enc'.sz = enc.sz,
         enc'.original = enc.original, dec'.inds = dec.inds, dec'.batch = dec.batch, dec'.done = dec.done,
         dec' = [inds |-> dec'.inds, batch |-> dec'.batch, cur_ind |-> dec'.cur_ind, done |-> dec'.done],
         (dec.done /\ phase = "pop") \/ dec' = dec
  PROVE  DecoderInv'
<1>1. Encoded' = Encoded /\ Index' = Index /\ Received' = Received
  BY EncodedStays DEF Index, Received
<1>2. Twice' = Twice /\ Delivered' = Delivered /\ Arrived' = Arrived
  BY <1>1 DEF Twice, Repeats, Delivered, Arrived
<1>3. /\ dec'.done \in BOOLEAN
      /\ phase' # "pop" => dec' = ClearedDecoder'
      /\ dec' = dec => dec'.cur_ind = dec.cur_ind
  BY DEF DecoderInv, ClearedDecoder
<1>4. ASSUME phase' = "pop"
      PROVE  /\ coded' = Encoded' /\ dec'.inds \in Seq(Below(enc'.n)) /\ Len(dec'.inds) <= enc'.k
             /\ ~dec'.done => dec'.cur_ind = Len(dec'.inds)
             /\ ~dec'.done => dec'.batch \in Seq({coded'[i] : i \in Below(enc'.n)}) /\ Len(dec'.batch) = Len(dec'.inds)
             /\ ~dec'.done => \A i \in 1 .. Len(dec'.inds) : dec'.batch[i] = coded'[dec'.inds[i]]
             /\ dec'.done => Len(dec'.inds) = enc'.k
  BY <1>1, <1>4 DEF DecoderInv
<1>5. ASSUME phase' = "pop", dec'.done
      PROVE  /\ Twice' => Delivered' = Arrived'
             /\ ~Twice' => \A i \in Below(enc'.k), w \in Below(enc'.sz) : dec'.batch[i + 1][w] = enc'.original[i + 1][w]
  BY <1>1, <1>2, <1>5 DEF DecoderInv
<1> QED BY <1>3, <1>4, <1>5 DEF DecoderInv

LEMMA SizeStays ==
  ASSUME SizeInv, Pushed' = Pushed, enc'.sz = enc.sz, enc'.lens = enc.lens, enc'.original = enc.original,
         enc'.src = enc.src
  PROVE  SizeInv'
BY DEF SizeInv

\* Appending at cur_ind to a sequence of that length.
LEMMA AppendOver ==
  ASSUME NEW S, NEW s \in Seq(S), NEW x \in S, NEW cur, cur = Len(s)
  PROVE  LET t == Append(SubSeq(s, 1, cur), x) IN
         t \in Seq(S) /\ Len(t) = cur + 1 /\ t[cur + 1] = x /\ \A i \in 1 .. cur : t[i] = s[i]
<1> DEFINE p == SubSeq(s, 1, cur)
<1>1. p \in Seq(S) /\ Len(p) = cur /\ \A i \in 1 .. cur : p[i] = s[i]
  OBVIOUS
<1> HIDE DEF p
<1>2. LET t == Append(p, x) IN t \in Seq(S) /\ Len(t) = cur + 1 /\ t[cur + 1] = x /\ \A i \in 1 .. cur : t[i] = s[i]
  BY <1>1
<1> QED BY <1>2 DEF p

LEMMA CodeValues ==
  ASSUME NEW k, NEW n, <<k, n>> \in Codes
  PROVE  k \in Nat /\ k >= 1 /\ n \in Nat /\ k <= n /\ n <= GF_SIZE + 1 /\ GF_SIZE \in Nat
BY CodeAssumption, Sizes DEF ValidParameters

LEMMA CodeInvInit == CodeInit => CodeInv
<1> SUFFICES ASSUME CodeInit PROVE CodeInv
  OBVIOUS
<1>1. AloneInv(sender)
  BY AloneInit, CodeAssumption DEF CodeInit
<1>2. enc = ClearedEncoder /\ phase = "push" /\ dec = ClearedDecoder
  BY DEF CodeInit
<1>3. MaxLen \in Nat
  BY CodeAssumption
<1>4. EncoderInv
  BY <1>2 DEF EncoderInv, ClearedEncoder, Pushed
<1>5. SizeInv
  BY <1>2, <1>3 DEF SizeInv, ClearedEncoder, Pushed
<1>6. DecoderInv
  BY <1>2 DEF DecoderInv, ClearedDecoder
<1> QED BY <1>1, <1>4, <1>5, <1>6 DEF CodeInv

\* Nothing of a batch changes while the tables are filled: fec_initialized lets nothing through.
LEMMA InitFecKeeps == ASSUME CodeInv, InitFec PROVE CodeInv'
<1>1. AloneInv(sender)'
  BY AloneStep, CodeAssumption DEF CodeInv, InitFec
<1>2. UNCHANGED <<enc, coded, phase, dec>>
  BY DEF InitFec, codeVars
<1>3. gf_pc[sender] # "ready" /\ sender \in Senders /\ gf_pc \in [Senders -> {"idle", "clear", "low", "high", "mul", "ready"}]
  BY CodeAssumption DEF CodeInv, AloneInv, TableTypes, InitFec, CheckInitialized, init_fec, ClearTop, LowPower,
                       TopLog, HighPower, Extend, init_mul_table
<1>4. phase = "push" /\ enc.cur_ind = 0
  BY <1>3 DEF CodeInv, EncoderInv
<1>5. EncoderInv'
  BY <1>2, <1>4 DEF CodeInv, EncoderInv, Pushed
<1>6. SizeInv'
  BY <1>2 DEF CodeInv, SizeInv, Pushed
<1>7. DecoderInv'
  BY <1>2, <1>4 DEF CodeInv, DecoderInv, ClearedDecoder
<1> QED BY <1>1, <1>5, <1>6, <1>7 DEF CodeInv

LEMMA PushPktKeeps == ASSUME CodeInv, NEW len \in Lens, PushPkt(len) PROVE CodeInv'
<1> DEFINE cur == enc.cur_ind
<1>1. PICK code \in Codes, src \in Payloads[cur] :
        /\ cur # 0 => code = <<enc.k, enc.n>>
        /\ enc' = [k |-> code[1], n |-> code[2],
                   sz |-> IF enc.sz < len THEN len ELSE enc.sz,
                   cur_ind |-> cur + 1,
                   lens |-> Append(SubSeq(enc.lens, 1, cur), len),
                   original |-> Append(SubSeq(enc.original, 1, cur),
                                       Written(Buffer(enc.original, cur), src, len)),
                   src |-> Append(SubSeq(enc.src, 1, cur), src)]
        /\ phase' = IF cur + 1 = code[1] THEN "encode" ELSE "push"
  BY DEF PushPkt
<1>2. gf_pc[sender] = "ready" /\ phase = "push" /\ UNCHANGED <<gfVars, coded, dec>>
  BY DEF PushPkt
<1> DEFINE k == code[1]
           n == code[2]
           old == Written(Buffer(enc.original, cur), src, len)
           sz == IF enc.sz < len THEN len ELSE enc.sz
           lens == Append(SubSeq(enc.lens, 1, cur), len)
           original == Append(SubSeq(enc.original, 1, cur), old)
           srcs == Append(SubSeq(enc.src, 1, cur), src)
<1>3. <<k, n>> \in Codes /\ code = <<k, n>> /\ k \in Nat /\ k >= 1 /\ n \in Nat /\ k <= n /\ n <= GF_SIZE + 1
  BY CodeAssumption, CodeValues
<1>4. cur \in Nat /\ enc.sz \in Nat /\ enc.sz <= MaxLen /\ MaxLen \in Nat /\ len \in 1 .. MaxLen /\ sz \in Nat /\ sz <= MaxLen
      /\ enc.sz <= sz /\ len <= sz
  BY CodeAssumption DEF CodeInv, EncoderInv, SizeInv
<1>5. /\ enc.lens \in Seq(Lens) /\ enc.original \in Seq(Packet) /\ enc.src \in Seq(Packet)
      /\ Len(enc.lens) = cur /\ Len(enc.original) = cur /\ Len(enc.src) = cur
  BY <1>2 DEF CodeInv, EncoderInv, Pushed
<1>6. cur \in Elem /\ cur + 1 <= k
  <2>1. CASE cur = 0
    BY <1>3, <2>1, Sizes
  <2>2. CASE cur # 0
    <3>1. cur < enc.k /\ k = enc.k
      BY <1>1, <1>2, <2>2 DEF CodeInv, EncoderInv
    <3>2. GF_SIZE \in Nat /\ Elem = 0 .. GF_SIZE
      BY Sizes DEF Elem
    <3> QED BY <1>3, <1>4, <3>1, <3>2
  <2> QED BY <2>1, <2>2
<1>7. src \in Packet
  BY <1>6, CodeAssumption DEF Packet
<1>8. old \in Packet /\ \A w \in Below(len) : old[w] = src[w]
  <2>1. \A w \in Below(MaxLen) : Buffer(enc.original, cur)[w] \in Elem /\ src[w] \in Elem
    BY <1>5, <1>7, Sizes DEF Buffer, Blank, Packet
  <2>2. \A w \in Below(len) : w \in Below(MaxLen) /\ w < len
    BY <1>4 DEF Below
  <2> QED BY <2>1, <2>2 DEF Written, Packet
<1>9. enc' = [k |-> k, n |-> n, sz |-> sz, cur_ind |-> cur + 1, lens |-> lens, original |-> original, src |-> srcs]
  BY <1>1
<1> HIDE DEF old, sz
<1>10. lens \in Seq(Lens) /\ Len(lens) = cur + 1 /\ lens[cur + 1] = len /\ \A i \in 1 .. cur : lens[i] = enc.lens[i]
  BY <1>5, AppendOver
<1>11. original \in Seq(Packet) /\ Len(original) = cur + 1 /\ original[cur + 1] = old
       /\ \A i \in 1 .. cur : original[i] = enc.original[i]
  BY <1>5, <1>8, AppendOver
<1>12. srcs \in Seq(Packet) /\ Len(srcs) = cur + 1 /\ srcs[cur + 1] = src /\ \A i \in 1 .. cur : srcs[i] = enc.src[i]
  BY <1>5, <1>7, AppendOver
<1> HIDE DEF lens, original, srcs, cur, k, n
<1>13. /\ enc'.k = k /\ enc'.n = n /\ enc'.sz = sz /\ enc'.cur_ind = cur + 1 /\ enc'.lens = lens
       /\ enc'.original = original /\ enc'.src = srcs
  BY <1>9
<1>14. phase' = (IF cur + 1 = k THEN "encode" ELSE "push") /\ Pushed' = cur + 1 /\ Pushed = cur
  BY <1>1, <1>2, <1>13 DEF Pushed, k, cur
<1>15. AloneInv(sender)'
  BY <1>2, AloneStutter, CodeAssumption DEF CodeInv
<1>16. gf_pc'[sender] = "ready"
  BY <1>2 DEF gfVars
<1>17. EncoderInv'
  <2>1. enc' \in [k : Nat, n : Nat, sz : Nat, cur_ind : Nat, lens : Seq(Lens), original : Seq(Packet), src : Seq(Packet)]
    BY <1>3, <1>4, <1>9, <1>10, <1>11, <1>12
  <2>2. phase' \in {"push", "encode", "pop"} /\ phase' # "pop"
    BY <1>14
  <2>3. phase' = "push" => cur + 1 < k
    BY <1>3, <1>4, <1>6, <1>14
  <2>4. phase' = "encode" => cur + 1 = k
    BY <1>14
  <2> QED BY <1>3, <1>10, <1>11, <1>12, <1>13, <1>14, <1>16, <2>1, <2>2, <2>3, <2>4 DEF EncoderInv, Packet
<1>18. SizeInv'
  <2>1. ASSUME NEW i \in 1 .. cur + 1 PROVE lens[i] <= sz /\ \A w \in Below(lens[i]) : original[i][w] = srcs[i][w]
    <3>1. CASE i = cur + 1
      BY <1>4, <1>8, <1>10, <1>11, <1>12, <3>1
    <3>2. CASE i # cur + 1
      <4>1. i \in 1 .. cur
        BY <1>4, <3>2
      <4>2. enc.lens[i] <= enc.sz /\ \A w \in Below(enc.lens[i]) : enc.original[i][w] = enc.src[i][w]
        BY <1>14, <4>1 DEF CodeInv, SizeInv
      <4>3. enc.lens[i] \in Nat
        <5>1. enc.lens \in Seq(Lens) /\ i \in 1 .. Len(enc.lens)
          BY <1>5, <4>1
        <5>2. enc.lens[i] \in Lens
          BY <5>1
        <5>3. Lens \subseteq Nat
          BY CodeAssumption
        <5> QED BY ONLY <5>2, <5>3
      <4> QED BY <1>4, <1>10, <1>11, <1>12, <4>1, <4>2, <4>3
    <3> QED BY <3>1, <3>2
  <2>2. \E i \in 1 .. cur + 1 : lens[i] = sz
    <3>1. CASE enc.sz < len
      <4>1. sz = len /\ cur + 1 \in 1 .. cur + 1
        BY <1>4, <3>1 DEF sz
      <4> QED BY <1>10, <4>1
    <3>2. CASE ~(enc.sz < len)
      <4>1. sz = enc.sz /\ cur # 0
        BY <1>4, <1>14, <3>2 DEF sz, CodeInv, SizeInv
      <4>2. PICK i \in 1 .. cur : enc.lens[i] = enc.sz
        BY <1>14, <4>1 DEF CodeInv, SizeInv
      <4>3. i \in 1 .. cur + 1 /\ lens[i] = sz
        BY <1>4, <1>10, <4>1, <4>2
      <4> QED BY <4>3
    <3> QED BY <3>1, <3>2
  <2> QED BY <1>4, <1>13, <1>14, <2>1, <2>2 DEF SizeInv
<1>19. DecoderInv'
  <2>1. dec' = dec /\ dec = ClearedDecoder /\ phase' # "pop"
    BY <1>2, <1>14 DEF CodeInv, DecoderInv
  <2> QED BY <2>1 DEF DecoderInv, ClearedDecoder
<1> QED BY <1>15, <1>17, <1>18, <1>19 DEF CodeInv

LEMMA SetCodeInfoKeeps == ASSUME CodeInv, SetCodeInfo PROVE CodeInv'
<1>1. PICK code \in Codes : code[1] = enc.cur_ind /\ enc' = [enc EXCEPT !.k = code[1], !.n = code[2]]
  BY DEF SetCodeInfo
<1>2. phase = "push" /\ enc.cur_ind > 0 /\ phase' = "encode" /\ UNCHANGED <<gfVars, coded, dec>>
  BY DEF SetCodeInfo
<1>3. code = <<code[1], code[2]>> /\ code[1] \in Nat /\ code[2] \in Nat /\ <<code[1], code[2]>> \in Codes
  BY CodeAssumption
<1>4. /\ enc' \in [k : Nat, n : Nat, sz : Nat, cur_ind : Nat, lens : Seq(Lens), original : Seq(Packet), src : Seq(Packet)]
      /\ enc'.k = code[1] /\ enc'.n = code[2] /\ enc'.sz = enc.sz /\ enc'.cur_ind = enc.cur_ind
      /\ enc'.lens = enc.lens /\ enc'.original = enc.original /\ enc'.src = enc.src
  BY <1>1, <1>3 DEF CodeInv, EncoderInv
<1>5. Pushed' = Pushed /\ Pushed = enc.cur_ind
  BY <1>2, <1>4 DEF Pushed
<1>6. AloneInv(sender)' /\ gf_pc' = gf_pc
  BY <1>2, AloneStutter, CodeAssumption DEF CodeInv, gfVars
<1>7. enc.cur_ind # 0
  BY <1>2 DEF CodeInv, EncoderInv
<1>8. EncoderInv'
  BY <1>1, <1>2, <1>3, <1>4, <1>5, <1>6, <1>7 DEF CodeInv, EncoderInv, Packet
<1>9. SizeInv'
  BY <1>4, <1>5, SizeStays DEF CodeInv
<1>10. DecoderInv'
  <2>1. dec' = dec /\ dec = ClearedDecoder
    BY <1>2 DEF CodeInv, DecoderInv
  <2> QED BY <1>2, <2>1 DEF DecoderInv, ClearedDecoder
<1> QED BY <1>6, <1>8, <1>9, <1>10 DEF CodeInv

LEMMA EncodeBatchKeeps == ASSUME CodeInv, EncodeBatch PROVE CodeInv'
<1>1. phase = "encode" /\ phase' = "pop" /\ coded' = Encoded /\ enc' = [enc EXCEPT !.cur_ind = 0]
      /\ UNCHANGED <<gfVars, dec>>
  BY DEF EncodeBatch, Encoded, Sources
<1>2. /\ enc' \in [k : Nat, n : Nat, sz : Nat, cur_ind : Nat, lens : Seq(Lens), original : Seq(Packet), src : Seq(Packet)]
      /\ enc'.k = enc.k /\ enc'.n = enc.n /\ enc'.sz = enc.sz /\ enc'.cur_ind = 0
      /\ enc'.lens = enc.lens /\ enc'.original = enc.original /\ enc'.src = enc.src
  BY <1>1 DEF CodeInv, EncoderInv
<1>3. Pushed' = Pushed /\ Pushed = enc.k
  BY <1>1, <1>2 DEF Pushed, CodeInv, EncoderInv
<1>4. AloneInv(sender)' /\ gf_pc' = gf_pc
  BY <1>1, AloneStutter, CodeAssumption DEF CodeInv, gfVars
<1>5. EncoderInv'
  BY <1>1, <1>2, <1>3, <1>4 DEF CodeInv, EncoderInv, Packet
<1>6. SizeInv'
  BY <1>2, <1>3, SizeStays DEF CodeInv
<1>7. DecoderInv'
  <2>1. dec' = dec /\ dec = ClearedDecoder /\ enc.k \in Nat
    BY <1>1 DEF CodeInv, DecoderInv, EncoderInv
  <2>2. coded' = Encoded'
    BY <1>1, <1>2, EncodedStays
  <2> QED BY <1>1, <1>2, <2>1, <2>2 DEF DecoderInv, ClearedDecoder
<1> QED BY <1>4, <1>5, <1>6, <1>7 DEF CodeInv

LEMMA PopPktKeeps == ASSUME CodeInv, PopPkt PROVE CodeInv'
<1>1. phase = "pop" /\ enc.cur_ind < enc.n /\ enc' = [enc EXCEPT !.cur_ind = @ + 1]
      /\ UNCHANGED <<gfVars, coded, phase, dec>>
  BY DEF PopPkt
<1>2. /\ enc' \in [k : Nat, n : Nat, sz : Nat, cur_ind : Nat, lens : Seq(Lens), original : Seq(Packet), src : Seq(Packet)]
      /\ enc'.k = enc.k /\ enc'.n = enc.n /\ enc'.sz = enc.sz /\ enc'.cur_ind = enc.cur_ind + 1
      /\ enc'.lens = enc.lens /\ enc'.original = enc.original /\ enc'.src = enc.src
  BY <1>1 DEF CodeInv, EncoderInv
<1>3. Pushed' = Pushed
  BY <1>1, <1>2 DEF Pushed
<1>4. AloneInv(sender)' /\ gf_pc' = gf_pc
  BY <1>1, AloneStutter, CodeAssumption DEF CodeInv, gfVars
<1>5. EncoderInv'
  <2>1. enc.cur_ind + 1 <= enc.n
    BY <1>1 DEF CodeInv, EncoderInv
  <2> QED BY <1>1, <1>2, <1>3, <1>4, <2>1 DEF CodeInv, EncoderInv, Packet
<1>6. SizeInv'
  BY <1>2, <1>3, SizeStays DEF CodeInv
<1>7. DecoderInv'
  <2>1. DecoderInv
    BY DEF CodeInv
  <2>2. dec' = dec /\ dec = [inds |-> dec.inds, batch |-> dec.batch, cur_ind |-> dec.cur_ind, done |-> dec.done]
    BY <1>1, <2>1 DEF DecoderInv
  <2>3. /\ dec'.inds = dec.inds /\ dec'.batch = dec.batch /\ dec'.done = dec.done
        /\ dec' = [inds |-> dec'.inds, batch |-> dec'.batch, cur_ind |-> dec'.cur_ind, done |-> dec'.done]
    BY ONLY <2>2
  <2> QED BY <1>1, <1>2, <2>1, <2>2, <2>3, DecoderStays
<1> QED BY <1>4, <1>5, <1>6, <1>7 DEF CodeInv

LEMMA PopDecodedKeeps == ASSUME CodeInv, PopDecoded PROVE CodeInv'
<1>1. phase = "pop" /\ dec.done /\ dec' = [dec EXCEPT !.cur_ind = @ + 1] /\ UNCHANGED <<gfVars, enc, coded, phase>>
  BY DEF PopDecoded
<1>2. AloneInv(sender)' /\ gf_pc' = gf_pc
  BY <1>1, AloneStutter, CodeAssumption DEF CodeInv, gfVars
<1>3. EncoderInv'
  BY <1>1, <1>2 DEF CodeInv, EncoderInv, Pushed, Packet
<1>4. SizeInv'
  BY <1>1 DEF CodeInv, SizeInv, Pushed
<1>5. dec = [inds |-> dec.inds, batch |-> dec.batch, cur_ind |-> dec.cur_ind, done |-> dec.done]
  BY DEF CodeInv, DecoderInv
<1>6. /\ dec'.inds = dec.inds /\ dec'.batch = dec.batch /\ dec'.done = dec.done
      /\ dec' = [inds |-> dec'.inds, batch |-> dec'.batch, cur_ind |-> dec'.cur_ind, done |-> dec'.done]
  <2>1. dec' = [inds |-> dec.inds, batch |-> dec.batch, cur_ind |-> dec.cur_ind + 1, done |-> dec.done]
    BY <1>1, <1>5
  <2> QED BY ONLY <2>1
<1>7. DecoderInv'
  BY <1>1, <1>6, DecoderStays DEF CodeInv
<1> QED BY <1>2, <1>3, <1>4, <1>7 DEF CodeInv

LEMMA ClearInfoKeeps == ASSUME CodeInv, ClearInfo PROVE CodeInv'
<1>1. enc' = ClearedEncoder /\ dec' = ClearedDecoder /\ phase' = "push" /\ UNCHANGED gfVars
  BY DEF ClearInfo
<1>2. AloneInv(sender)'
  BY <1>1, AloneStutter, CodeAssumption DEF CodeInv
<1>3. MaxLen \in Nat
  BY CodeAssumption
<1>4. EncoderInv'
  BY <1>1 DEF EncoderInv, ClearedEncoder, Pushed, Packet
<1>5. SizeInv'
  BY <1>1, <1>3 DEF SizeInv, ClearedEncoder, Pushed
<1>6. DecoderInv'
  BY <1>1 DEF DecoderInv, ClearedDecoder
<1> QED BY <1>2, <1>4, <1>5, <1>6 DEF CodeInv

LEMMA PushReceivedKeeps == ASSUME CodeInv, NEW ind \in Elem, PushReceived(ind) PROVE CodeInv'
<1>1. /\ phase = "pop" /\ ~dec.done /\ Len(dec.inds) < enc.k /\ dec.cur_ind = Len(dec.inds) /\ ind < enc.cur_ind
      /\ dec' = [dec EXCEPT !.inds = Append(@, ind), !.batch = Append(@, coded[ind]), !.cur_ind = @ + 1]
      /\ UNCHANGED <<gfVars, enc, coded, phase>>
  BY DEF PushReceived, CodeInv, DecoderInv
<1>2. AloneInv(sender)' /\ gf_pc' = gf_pc
  BY <1>1, AloneStutter, CodeAssumption DEF CodeInv, gfVars
<1>3. EncoderInv'
  BY <1>1, <1>2 DEF CodeInv, EncoderInv, Pushed, Packet
<1>4. SizeInv'
  BY <1>1 DEF CodeInv, SizeInv, Pushed
<1>5. enc.k \in Nat /\ enc.n \in Nat /\ enc.cur_ind \in Nat /\ enc.cur_ind <= enc.n /\ ind \in Nat
  BY <1>1, Sizes DEF CodeInv, EncoderInv, Elem
<1>6. ind \in Below(enc.n)
  BY <1>1, <1>5 DEF Below
<1> DEFINE S == {coded[i] : i \in Below(enc.n)}
           x == coded[ind]
           inds == dec.inds
           batch == dec.batch
<1>7. /\ dec = [inds |-> inds, batch |-> batch, cur_ind |-> dec.cur_ind, done |-> dec.done]
      /\ coded = Encoded /\ inds \in Seq(Below(enc.n)) /\ batch \in Seq(S) /\ Len(batch) = Len(inds)
      /\ \A i \in 1 .. Len(inds) : batch[i] = coded[inds[i]]
  BY <1>1 DEF CodeInv, DecoderInv
<1>8. x \in S
  BY <1>6
<1>9. dec' = [inds |-> Append(inds, ind), batch |-> Append(batch, x), cur_ind |-> dec.cur_ind + 1, done |-> dec.done]
  BY <1>1, <1>7
<1>10. Encoded' = Encoded
  BY <1>1, EncodedStays
<1> HIDE DEF inds, batch, S
<1>11. /\ Append(inds, ind) \in Seq(Below(enc.n)) /\ Len(Append(inds, ind)) = Len(inds) + 1 /\ Len(inds) \in Nat
       /\ Append(inds, ind)[Len(inds) + 1] = ind /\ \A i \in 1 .. Len(inds) : Append(inds, ind)[i] = inds[i]
  BY <1>6, <1>7
<1>12. /\ Append(batch, x) \in Seq(S) /\ Len(Append(batch, x)) = Len(inds) + 1
       /\ Append(batch, x)[Len(inds) + 1] = x /\ \A i \in 1 .. Len(inds) : Append(batch, x)[i] = batch[i]
  <2> HIDE DEF x
  <2> QED BY <1>7, <1>8
<1>13. ASSUME NEW i \in 1 .. Len(inds) + 1 PROVE Append(batch, x)[i] = coded[Append(inds, ind)[i]]
  <2>1. CASE i = Len(inds) + 1
    BY <1>11, <1>12, <2>1
  <2>2. CASE i # Len(inds) + 1
    <3>1. i \in 1 .. Len(inds)
      BY <1>11, <2>2
    <3> QED BY <1>7, <1>11, <1>12, <3>1
  <2> QED BY <2>1, <2>2
<1>14. Len(inds) + 1 <= enc.k
  BY <1>1, <1>5, <1>11 DEF inds
<1> HIDE DEF x
<1>15. DecoderInv'
  <2>1. /\ dec'.inds = Append(inds, ind) /\ dec'.batch = Append(batch, x) /\ dec'.cur_ind = Len(inds) + 1 /\ dec'.done = FALSE
        /\ dec' = [inds |-> dec'.inds, batch |-> dec'.batch, cur_ind |-> dec'.cur_ind, done |-> dec'.done]
    <3>1. dec.done = FALSE /\ dec.cur_ind = Len(inds)
      BY <1>1 DEF CodeInv, DecoderInv, inds
    <3>2. dec' = [inds |-> Append(inds, ind), batch |-> Append(batch, x), cur_ind |-> Len(inds) + 1, done |-> FALSE]
      BY <1>9, <3>1
    <3> QED BY ONLY <3>2
  <2>2. coded' = Encoded' /\ enc' = enc /\ phase' = "pop" /\ S = {coded'[i] : i \in Below(enc'.n)}
    BY <1>1, <1>7, <1>10 DEF S
  <2>3. /\ dec'.inds \in Seq(Below(enc'.n)) /\ Len(dec'.inds) <= enc'.k
        /\ dec'.batch \in Seq({coded'[i] : i \in Below(enc'.n)}) /\ Len(dec'.batch) = Len(dec'.inds)
        /\ dec'.cur_ind = Len(dec'.inds)
    BY <1>11, <1>12, <1>14, <2>1, <2>2
  <2>4. \A i \in 1 .. Len(dec'.inds) : dec'.batch[i] = coded'[dec'.inds[i]]
    <3>1. coded' = coded
      BY <1>1
    <3> QED BY ONLY <1>11, <1>13, <2>1, <3>1
  <2> QED BY ONLY <2>1, <2>2, <2>3, <2>4 DEF DecoderInv
<1> QED BY <1>2, <1>3, <1>4, <1>15 DEF CodeInv

LEMMA DecodeBatchKeeps == ASSUME CodeInv, DecodeBatch PROVE CodeInv'
<1> DEFINE k == enc.k
           n == enc.n
           pkt == [i \in Below(k) |-> dec.batch[i + 1]]
           r == fec_decode(fec_new(k, n), k, pkt, Index)
           batch == [i \in 1 .. k |-> r.pkt[i - 1]]
<1>1. /\ phase = "pop" /\ ~dec.done /\ Len(dec.inds) = k
      /\ dec' = [dec EXCEPT !.batch = batch, !.cur_ind = 0, !.done = TRUE]
      /\ UNCHANGED <<gfVars, enc, coded, phase>>
  BY DEF DecodeBatch, Index, CodeInv, DecoderInv
<1>2. AloneInv(sender)' /\ gf_pc' = gf_pc
  BY <1>1, AloneStutter, CodeAssumption DEF CodeInv, gfVars
<1>3. EncoderInv'
  BY <1>1, <1>2 DEF CodeInv, EncoderInv, Pushed, Packet
<1>4. SizeInv'
  BY <1>1 DEF CodeInv, SizeInv, Pushed
<1>5. FieldReady /\ <<k, n>> \in Codes
  BY <1>1 DEF CodeInv, AloneInv, EncoderInv
<1>6. k \in Nat /\ k >= 1 /\ n \in Nat /\ k <= n /\ n <= GF_SIZE + 1
  BY <1>5, CodeValues
<1>7. enc.sz \in Nat /\ \A i \in Below(k), w \in Below(enc.sz) : Sources[i] = enc.original[i + 1] /\ Sources[i][w] \in Elem
  <2>1. enc.sz \in Nat /\ enc.sz <= MaxLen /\ enc.original \in Seq(Packet) /\ Len(enc.original) = k
    BY <1>1 DEF CodeInv, EncoderInv, SizeInv, Pushed
  <2>2. \A i \in Below(k) : i + 1 \in 1 .. k
    BY <1>6 DEF Below
  <2>3. \A i \in Below(k) : enc.original[i + 1] \in Packet
    BY <2>1, <2>2
  <2>4. \A w \in Below(enc.sz) : w \in Below(MaxLen)
    BY <2>1, CodeAssumption DEF Below
  <2> QED BY <2>1, <2>3, <2>4 DEF Sources, Packet
<1>8. /\ dec = [inds |-> dec.inds, batch |-> dec.batch, cur_ind |-> dec.cur_ind, done |-> dec.done]
      /\ coded = Encoded /\ dec.inds \in Seq(Below(n))
      /\ \A i \in 1 .. k : dec.batch[i] = coded[dec.inds[i]]
  BY <1>1 DEF CodeInv, DecoderInv
<1>9. \A i \in Below(k) : i + 1 \in 1 .. k /\ i + 1 - 1 = i
  BY <1>6 DEF Below
<1>10. Index \in [Below(k) -> Below(n)]
  BY <1>1, <1>8, <1>9 DEF Index
<1>11. pkt = [i \in Below(k) |-> fec_encode(fec_new(k, n), k, Sources, Index[i], enc.sz)]
  <2>1. \A j \in Below(n) : coded[j] = fec_encode(fec_new(k, n), k, Sources, j, enc.sz)
    BY <1>8 DEF Encoded
  <2>2. \A i \in Below(k) : dec.batch[i + 1] = coded[Index[i]]
    BY <1>8, <1>9 DEF Index
  <2> QED BY <1>10, <2>1, <2>2
<1> DEFINE source == Sources
           index == Index
           sz == enc.sz
<1>12. /\ r.error \in BOOLEAN /\ (r.error <=> Repeats(index, k))
       /\ r.error => Held(r.pkt, k) = Held(pkt, k)
       /\ ~r.error => \A i \in Below(k), w \in Below(sz) : r.pkt[i][w] = source[i][w]
  <2>1. sz \in Nat /\ \A i \in Below(k), w \in Below(sz) : source[i][w] \in Elem
    BY <1>7
  <2>2. index \in [Below(k) -> Below(n)] /\ pkt = [i \in Below(k) |-> fec_encode(fec_new(k, n), k, source, index[i], sz)]
    BY <1>10, <1>11
  <2>3. r = fec_decode(fec_new(k, n), k, pkt, index)
    OBVIOUS
  <2> HIDE DEF k, n, pkt, source, index, sz, r
  <2>4. IsDecoded(r, pkt, index, source, k, sz)
    BY ONLY <1>5, <1>6, <2>1, <2>2, <2>3, Decoded
  <2> QED BY ONLY <2>4 DEF IsDecoded
<1> HIDE DEF r
<1>13. Encoded' = Encoded /\ Index' = [i \in Below(k) |-> dec'.inds[i + 1]]
  BY <1>1, EncodedStays DEF Index
<1>14. dec' = [inds |-> dec.inds, batch |-> batch, cur_ind |-> 0, done |-> TRUE]
  BY <1>1, <1>8
<1>15. ASSUME NEW i \in Below(k) PROVE batch[i + 1] = r.pkt[i]
  <2>1. i + 1 \in 1 .. k /\ (i + 1) - 1 = i
    <3> HIDE DEF k, batch
    <3>1. i \in Below(k) /\ k \in Nat
      BY <1>6
    <3> QED BY ONLY <3>1 DEF Below
  <2> DEFINE j == i + 1
  <2>2. j \in 1 .. k
    BY <2>1
  <2> HIDE DEF j, k
  <2>3. batch[j] = r.pkt[j - 1]
    BY <2>2
  <2>4. j = i + 1 /\ j - 1 = i
    BY ONLY <2>1 DEF j
  <2> QED BY ONLY <2>3, <2>4
<1>16. Held(pkt, k) = {coded[ind] : ind \in Received}
  <2>0. Received = {dec.inds[i] : i \in 1 .. k}
    <3>1. DOMAIN dec.inds = 1 .. k
      <4>1. dec.inds \in Seq(Below(n)) /\ Len(dec.inds) = k
        BY <1>1, <1>8
      <4> QED BY ONLY <4>1
    <3> QED BY ONLY <3>1 DEF Received
  <2>1. Received = {dec.inds[i] : i \in 1 .. k} /\ \A i \in 1 .. k : i - 1 \in Below(k) /\ (i - 1) + 1 = i
    BY <1>6, <2>0 DEF Below
  <2>2. \A i \in Below(k) : pkt[i] = coded[dec.inds[i + 1]]
    BY <1>8, <1>9
  <2>3. \A i \in Below(k) : pkt[i] \in {coded[ind] : ind \in Received}
    BY <1>9, <2>1, <2>2
  <2>4. \A i \in 1 .. k : coded[dec.inds[i]] = pkt[i - 1] /\ i - 1 \in Below(k)
    BY <2>1, <2>2
  <2> HIDE DEF pkt, k
  <2> QED BY <2>1, <2>3, <2>4 DEF Held
<1>17. {batch[i] : i \in 1 .. k} = Held(r.pkt, k)
  <2>1. \A i \in 1 .. k : i - 1 \in Below(k)
    BY <1>6 DEF Below
  <2>2. \A i \in 1 .. k : batch[i] = r.pkt[i - 1]
    OBVIOUS
  <2> HIDE DEF batch, k
  <2> QED BY <1>9, <1>15, <2>1, <2>2 DEF Held
<1> HIDE DEF batch, k, n, pkt
<1>18. DecoderInv'
  <2>1. dec'.inds = dec.inds /\ dec'.batch = batch /\ dec'.done = TRUE
        /\ dec' = [inds |-> dec'.inds, batch |-> dec'.batch, cur_ind |-> dec'.cur_ind, done |-> dec'.done]
    BY ONLY <1>14
  <2>2. /\ coded' = Encoded' /\ enc'.k = k /\ enc'.n = n /\ enc'.sz = sz /\ enc'.original = enc.original /\ phase' = "pop"
        /\ Index' = Index /\ Received' = Received /\ coded' = coded
    BY <1>1, <1>8, <1>13, <2>1 DEF k, n, Index, Received
  <2>3. dec'.inds \in Seq(Below(n)) /\ Len(dec'.inds) = k /\ k <= k
    BY <1>1, <1>6, <1>8, <2>1
  <2>4. Twice => Delivered' = Arrived'
    <3>1. Twice => {batch[i] : i \in 1 .. k} = {coded[ind] : ind \in Received}
      BY <1>12, <1>16, <1>17 DEF Twice, k
    <3>2. Delivered' = {batch[i] : i \in 1 .. k}
      BY <2>1, <2>2 DEF Delivered
    <3>3. Arrived' = {coded[ind] : ind \in Received}
      BY <2>2 DEF Arrived
    <3> QED BY ONLY <3>1, <3>2, <3>3
  <2>5. ASSUME ~Twice, NEW i \in Below(k), NEW w \in Below(sz)
        PROVE  batch[i + 1][w] = enc.original[i + 1][w]
    BY <1>7, <1>12, <1>15, <2>5 DEF Twice, k
  <2>6. Twice' = Twice
    BY <1>1, <2>2 DEF Twice, Repeats
  <2>7. /\ dec' = [inds |-> dec'.inds, batch |-> dec'.batch, cur_ind |-> dec'.cur_ind, done |-> dec'.done]
        /\ dec'.done = TRUE /\ phase' = "pop" /\ coded' = Encoded'
    BY ONLY <2>1, <2>2
  <2>8. dec'.inds \in Seq(Below(enc'.n)) /\ Len(dec'.inds) <= enc'.k /\ Len(dec'.inds) = enc'.k
    BY ONLY <2>2, <2>3
  <2>9. Twice' => Delivered' = Arrived'
    BY ONLY <2>4, <2>6
  <2>10. ~Twice' => \A i \in Below(enc'.k), w \in Below(enc'.sz) : dec'.batch[i + 1][w] = enc'.original[i + 1][w]
    BY ONLY <2>1, <2>2, <2>5, <2>6
  <2> QED BY ONLY <2>7, <2>8, <2>9, <2>10 DEF DecoderInv
<1> QED BY <1>2, <1>3, <1>4, <1>18 DEF CodeInv

vars == <<gfVars, codeVars>>

LEMMA CodeInvStep == CodeInv /\ [CodeNext]_vars => CodeInv'
<1> SUFFICES ASSUME CodeInv, [CodeNext]_vars PROVE CodeInv'
  OBVIOUS
<1>1. CASE InitFec
  BY <1>1, InitFecKeeps
<1>2. ASSUME NEW len \in Lens, PushPkt(len) PROVE CodeInv'
  BY <1>2, PushPktKeeps
<1>3. CASE SetCodeInfo
  BY <1>3, SetCodeInfoKeeps
<1>4. CASE EncodeBatch
  BY <1>4, EncodeBatchKeeps
<1>5. CASE PopPkt
  BY <1>5, PopPktKeeps
<1>6. ASSUME NEW ind \in Elem, PushReceived(ind) PROVE CodeInv'
  BY <1>6, PushReceivedKeeps
<1>7. CASE DecodeBatch
  BY <1>7, DecodeBatchKeeps
<1>8. CASE PopDecoded
  BY <1>8, PopDecodedKeeps
<1>9. CASE ClearInfo
  BY <1>9, ClearInfoKeeps
<1>10. CASE UNCHANGED vars
  <2>1. UNCHANGED gfVars /\ UNCHANGED <<enc, coded, phase, dec>>
    BY <1>10 DEF vars, codeVars
  <2>2. AloneInv(sender)' /\ gf_pc' = gf_pc
    BY <2>1, AloneStutter, CodeAssumption DEF CodeInv, gfVars
  <2>3. EncoderInv'
    BY <2>1, <2>2 DEF CodeInv, EncoderInv, Pushed, Packet
  <2>4. SizeInv'
    BY <2>1 DEF CodeInv, SizeInv, Pushed
  <2>5. DecoderInv'
    <3>1. DecoderInv
      BY DEF CodeInv
    <3>2. dec' = dec /\ dec = [inds |-> dec.inds, batch |-> dec.batch, cur_ind |-> dec.cur_ind, done |-> dec.done]
      BY <2>1, <3>1 DEF DecoderInv
    <3>3. dec' = [inds |-> dec'.inds, batch |-> dec'.batch, cur_ind |-> dec'.cur_ind, done |-> dec'.done]
      BY ONLY <3>2
    <3> QED BY <2>1, <3>1, <3>2, <3>3, DecoderStays
  <2> QED BY <2>2, <2>3, <2>4, <2>5 DEF CodeInv
<1> QED BY <1>1, <1>2, <1>3, <1>4, <1>5, <1>6, <1>7, <1>8, <1>9, <1>10 DEF CodeNext

(***************************************************************************)
(* The encoder follows the order of its calls, its buffers hold the        *)
(* packets up to their lengths, and the decoder what was encoded.          *)
(***************************************************************************)
THEOREM CodeInvAlways == CodeSpec => []CodeInv
<1>1. CodeInit => CodeInv
  BY CodeInvInit
<1>2. CodeInv /\ [CodeNext]_vars => CodeInv'
  BY CodeInvStep
<1> QED BY <1>1, <1>2, PTL DEF CodeSpec, vars

\* As many different packets were received as the batch has exactly when none came twice.
LEMMA ReceivedCounts ==
  ASSUME NEW k \in Nat, NEW S, dec.inds \in Seq(S), Len(dec.inds) = k, enc.k = k
  PROVE  Cardinality(Received) \in Nat /\ Cardinality(Received) <= k
         /\ (Cardinality(Received) = k <=> ~Repeats(Index, k))
<1> DEFINE inds == dec.inds
           f == [i \in 1 .. k |-> inds[i]]
           R == {inds[i] : i \in 1 .. k}
<1>1. Received = R
  BY DEF Received
<1>2. \A i \in Below(k) : Index[i] = inds[i + 1] /\ i + 1 \in 1 .. k
  BY DEF Index, Below
<1> HIDE DEF inds
<1>3. f \in Surjection(1 .. k, R)
  BY DEF Surjection
<1>4. IsFiniteSet(1 .. k) /\ Cardinality(1 .. k) = k
  BY FS_Interval
<1>5. IsFiniteSet(R) /\ Cardinality(R) <= k /\ (Cardinality(R) = k <=> f \in Injection(1 .. k, R))
  <2> HIDE DEF f, R
  <2> QED BY <1>3, <1>4, FS_Surjection
<1>6. f \in Injection(1 .. k, R) <=> \A i, j \in 1 .. k : inds[i] = inds[j] => i = j
  <2>1. f \in [1 .. k -> R] /\ \A i \in 1 .. k : f[i] = inds[i]
    OBVIOUS
  <2> HIDE DEF f, R
  <2>2. f \in Injection(1 .. k, R) <=> \A i, j \in 1 .. k : f[i] = f[j] => i = j
    BY <2>1 DEF Injection, IsInjective
  <2> QED BY <2>1, <2>2
<1>7. (\A i, j \in 1 .. k : inds[i] = inds[j] => i = j) <=> ~Repeats(Index, k)
  <2>1. ASSUME NEW i \in 1 .. k, NEW j \in 1 .. k, inds[i] = inds[j], i # j PROVE Repeats(Index, k)
    <3>1. i - 1 \in Below(k) /\ j - 1 \in Below(k) /\ i - 1 + 1 = i /\ j - 1 + 1 = j /\ i - 1 # j - 1
      BY <2>1 DEF Below
    <3>2. Index[i - 1] = Index[j - 1]
      BY <1>2, <2>1, <3>1
    <3> QED BY <3>1, <3>2 DEF Repeats
  <2>2. ASSUME Repeats(Index, k) PROVE \E i, j \in 1 .. k : inds[i] = inds[j] /\ i # j
    <3>1. PICK i \in Below(k), j \in Below(k) : i # j /\ Index[i] = Index[j]
      BY <2>2 DEF Repeats
    <3>2. i + 1 \in 1 .. k /\ j + 1 \in 1 .. k /\ i + 1 # j + 1
      BY <3>1 DEF Below
    <3>3. inds[i + 1] = inds[j + 1]
      BY <1>2, <3>1
    <3> QED BY <3>2, <3>3
  <2> QED BY <2>1, <2>2
<1>8. Cardinality(R) \in Nat
  BY <1>5, FS_CardinalityType
<1> HIDE DEF f, R
<1> QED BY <1>1, <1>5, <1>6, <1>7, <1>8

(***************************************************************************)
(* Any k different packets of a batch, in any order of arrival, give back  *)
(* every packet that was pushed: for every field size, code, length and    *)
(* content (fec.cc:630-839).                                               *)
(***************************************************************************)
THEOREM AnyKRecoverAlways == CodeSpec => []AnyKRecover
<1>1. CodeInv => AnyKRecover
  <2> SUFFICES ASSUME CodeInv, dec.done, Cardinality(Received) = enc.k
               PROVE  \A i \in Below(enc.k) : \A w \in Below(enc.lens[i + 1]) :
                        dec.batch[i + 1][w] = enc.src[i + 1][w]
    BY DEF AnyKRecover
  <2>1. phase = "pop" /\ dec.inds \in Seq(Below(enc.n)) /\ Len(dec.inds) = enc.k /\ enc.k \in Nat
    BY DEF CodeInv, DecoderInv, ClearedDecoder, EncoderInv
  <2>2. ~Twice
    BY <2>1, ReceivedCounts DEF Twice
  <2>3. \A i \in Below(enc.k), w \in Below(enc.sz) : dec.batch[i + 1][w] = enc.original[i + 1][w]
    BY <2>1, <2>2 DEF CodeInv, DecoderInv
  <2>4. ASSUME NEW i \in Below(enc.k), NEW w \in Below(enc.lens[i + 1])
        PROVE  dec.batch[i + 1][w] = enc.src[i + 1][w]
    <3>1. i + 1 \in 1 .. enc.k
      BY <2>1 DEF Below
    <3>2. enc.lens[i + 1] <= enc.sz /\ enc.original[i + 1][w] = enc.src[i + 1][w]
      BY <2>1, <3>1 DEF CodeInv, SizeInv, Pushed
    <3>3. enc.lens[i + 1] \in Nat /\ enc.sz \in Nat
      <4>1. enc.lens \in Seq(Lens) /\ Len(enc.lens) = enc.k /\ enc.sz \in Nat
        BY <2>1 DEF CodeInv, EncoderInv, Pushed
      <4>2. enc.lens[i + 1] \in Lens
        BY <3>1, <4>1
      <4>3. Lens \subseteq Nat
        BY CodeAssumption
      <4> QED BY <4>1, <4>2, <4>3
    <3>4. w \in Below(enc.sz)
      BY <3>2, <3>3 DEF Below
    <3> QED BY <2>3, <3>2, <3>4
  <2> QED BY <2>4
<1> QED BY <1>1, CodeInvAlways, PTL

(***************************************************************************)
(* When one of the k packets came twice, what PopPkt hands out after       *)
(* DecodeBatch are the received packets as they came, in another order at  *)
(* most: the failure, which DecodeBatch only prints, leaves nothing half   *)
(* decoded (fec.cc:720-740, 799-814, 909-942).                             *)
(***************************************************************************)
THEOREM UndecodedUntouchedAlways == CodeSpec => []UndecodedUntouched
<1>1. CodeInv => UndecodedUntouched
  <2> SUFFICES ASSUME CodeInv, dec.done, Cardinality(Received) < enc.k
               PROVE  Delivered = Arrived
    BY DEF UndecodedUntouched, Delivered, Arrived
  <2>1. phase = "pop" /\ dec.inds \in Seq(Below(enc.n)) /\ Len(dec.inds) = enc.k /\ enc.k \in Nat
    BY DEF CodeInv, DecoderInv, ClearedDecoder, EncoderInv
  <2>2. Twice
    BY <2>1, ReceivedCounts DEF Twice
  <2> QED BY <2>1, <2>2 DEF CodeInv, DecoderInv
<1> QED BY <1>1, CodeInvAlways, PTL

(***************************************************************************)
(* A batch is encoded with the length of its own longest packet, whatever  *)
(* the batch before it was (fec.cc:866-873).                               *)
(***************************************************************************)
THEOREM SizeIsOwnAlways == CodeSpec => []SizeIsOwn
<1>1. CodeInv => SizeIsOwn
  <2> SUFFICES ASSUME CodeInv, phase # "push" PROVE \E i \in 1 .. enc.k : enc.lens[i] = enc.sz
    BY DEF SizeIsOwn
  <2>1. Pushed = enc.k /\ <<enc.k, enc.n>> \in Codes
    BY DEF CodeInv, EncoderInv, Pushed
  <2>2. enc.k >= 1
    BY <2>1, CodeValues
  <2> QED BY <2>1, <2>2 DEF CodeInv, SizeInv
<1> QED BY <1>1, CodeInvAlways, PTL

(***************************************************************************)
(* For every k up to the field's limit the fast inversion inverts the      *)
(* Vandermonde matrix and agrees with Gauss-Jordan elimination, which also *)
(* inverts it with its columns reversed (fec.cc:391-583).                  *)
(***************************************************************************)
THEOREM VandermondeInvertedAlways == CodeSpec => []VandermondeInverted
<1>1. CodeInv => VandermondeInverted
  <2> SUFFICES ASSUME CodeInv, gf_pc[sender] = "ready", NEW k \in 1 .. MaxBatchSize
               PROVE  LET points == Vandermonde(k, k)
                          fast == invert_vdm(points, k)
                          reversed == [row \in Below(k) |-> [col \in Below(k) |-> points[row][k - 1 - col]]]
                          general == invert_mat(reversed, k)
                      IN /\ matmul(points, fast, k, k, k) = Identity(k)
                         /\ invert_mat(points, k) = [error |-> FALSE, m |-> fast]
                         /\ ~general.error /\ matmul(reversed, general.m, k, k, k) = Identity(k)
    BY DEF VandermondeInverted
  <2>1. FieldReady
    BY DEF CodeInv, AloneInv
  <2>2. k \in Nat /\ k >= 1 /\ k <= GF_SIZE + 1
    BY CodeAssumption, Sizes
  <2> QED BY <2>1, <2>2, InversionsAgree DEF Reversed
<1> QED BY <1>1, CodeInvAlways, PTL

\* What FieldTables says of the tables.
TablesCorrect ==
  \A x \in Elem :
    /\ x # 0 => gf_mul_table[x][inverse[x]] = 1
    /\ \A y \in Elem : gf_mul_table[x][y] = Product(x, y)

(***************************************************************************)
(* When fec_initialized is set the tables are the multiplication and the   *)
(* inverses of the field, and they stay so, as long as only one sender     *)
(* encodes (fec.cc:597, 638).                                              *)
(***************************************************************************)
THEOREM FieldTablesAlways == CodeSpec => FieldTables
<1>1. FieldReady => TablesCorrect
  BY FieldTablesStep DEF TablesCorrect
<1>2. FieldReady' => TablesCorrect'
  BY <1>1, PTL
<1>3. CodeInv /\ CodeInv' /\ [CodeNext]_vars
      => [/\ ~fec_initialized /\ fec_initialized' =>
                \A x \in Elem :
                  /\ x # 0 => gf_mul_table'[x][inverse'[x]] = 1
                  /\ \A y \in Elem : gf_mul_table'[x][y] = Product(x, y)
          /\ fec_initialized => UNCHANGED tables]_gfVars
  <2> SUFFICES ASSUME CodeInv, CodeInv', [CodeNext]_vars, gfVars' # gfVars
               PROVE  /\ ~fec_initialized /\ fec_initialized' =>
                            \A x \in Elem :
                              /\ x # 0 => gf_mul_table'[x][inverse'[x]] = 1
                              /\ \A y \in Elem : gf_mul_table'[x][y] = Product(x, y)
                      /\ fec_initialized => UNCHANGED tables
    OBVIOUS
  <2>1. InitFec
    BY DEF CodeNext, PushPkt, SetCodeInfo, EncodeBatch, PopPkt, PushReceived, DecodeBatch, PopDecoded, ClearInfo, vars
  <2>2. ~fec_initialized
    <3>1. gf_pc[sender] # "ready"
      BY <2>1, CodeAssumption DEF CodeInv, AloneInv, TableTypes, InitFec, CheckInitialized, init_fec, ClearTop,
                                 LowPower, TopLog, HighPower, Extend, init_mul_table
    <3> QED BY <3>1 DEF CodeInv, AloneInv
  <2>3. fec_initialized' => TablesCorrect'
    <3>1. fec_initialized' => FieldReady'
      BY DEF CodeInv, AloneInv
    <3> QED BY <1>2, <3>1
  <2> QED BY <2>2, <2>3 DEF TablesCorrect
<1>4. CodeSpec => [][CodeNext]_vars
  BY PTL DEF CodeSpec, vars
<1> QED BY <1>3, <1>4, CodeInvAlways, PTL DEF FieldTables
=============================================================================
