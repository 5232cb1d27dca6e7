------------------------------- MODULE CodeInfo -------------------------------
(***************************************************************************)
(* The life of a batch through the two CodeInfo objects of fec.cc: the     *)
(* sender's encoder (PushPkt, EncodeBatch, PopPkt, ClearInfo), the air,    *)
(* which loses, duplicates and reorders packets, and the client's decoder. *)
(*                                                                         *)
(* The client is another program: only its calls of CodeInfo are modelled. *)
(* A packet is a function from word positions to field elements.           *)
(***************************************************************************)
EXTENDS Fec, FiniteSets

CONSTANTS
  sender,    \* the thread
  Codes,     \* the <<k, n>> the rate adaptation may choose
  MaxLen,    \* words of the longest packet
  Lens,      \* the lengths of packets
  Payloads,  \* the packets that may come as the i-th of a batch
  MaxBatchSize

ASSUME CodeAssumption ==
  /\ sender \in Senders
  /\ Codes \subseteq (Nat \ {0}) \X Nat
  /\ \A code \in Codes : ValidParameters(code[1], code[2])
  /\ MaxLen \in Lens /\ Lens \subseteq 1 .. MaxLen
  /\ MaxBatchSize \in 1 .. GF_SIZE + 1
  /\ \A i \in Elem : Payloads[i] \subseteq [Below(MaxLen) -> Elem]

VARIABLES
  enc,   \* the encoder: k_, n_, sz_, cur_ind_, lens_, original_batch_, and, to
         \* compare with, the packets src as they came
  coded, \* its coded_batch_
  phase, \* what the sender does next with it
  dec    \* the decoder: inds_, coded_batch_ and cur_ind_, and, for the properties,
         \* whether DecodeBatch was called

codeVars == <<enc, coded, phase, dec>>

Blank == [w \in Below(MaxLen) |-> 0]

ClearedEncoder == [k |-> 0, n |-> 0, sz |-> 0, cur_ind |-> 0, lens |-> <<>>, original |-> <<>>,
                   src |-> <<>>]
ClearedDecoder == [inds |-> <<>>, batch |-> <<>>, cur_ind |-> 0, done |-> FALSE]

CodeInit ==
  /\ GFInit
  /\ enc = ClearedEncoder /\ coded = <<>> /\ phase = "push"
  /\ dec = ClearedDecoder

InitFec ==
  /\ CheckInitialized(sender) \/ init_fec(sender)
  /\ UNCHANGED codeVars

-----------------------------------------------------------------------------
(* The encoder.                                                            *)

\* memcpy over what the buffer holds: zeros, or the packet of the last batch.
Written(old, new, len) == [w \in Below(MaxLen) |-> IF w < len THEN new[w] ELSE old[w]]
Buffer(batch, i) == IF i < Len(batch) THEN batch[i + 1] ELSE Blank

PushPkt(len) ==
  /\ gf_pc[sender] = "ready"
  /\ phase = "push"
  /\ \E code \in Codes, src \in Payloads[enc.cur_ind] :
       /\ enc.cur_ind # 0 => code = <<enc.k, enc.n>>
       /\ LET cur == enc.cur_ind IN
          enc' = [k |-> code[1], n |-> code[2],
                  sz |-> IF enc.sz < len THEN len ELSE enc.sz,
                  cur_ind |-> cur + 1,
                  lens |-> Append(SubSeq(enc.lens, 1, cur), len),
                  original |-> Append(SubSeq(enc.original, 1, cur),
                                      Written(Buffer(enc.original, cur), src, len)),
                  src |-> Append(SubSeq(enc.src, 1, cur), src)]
       /\ phase' = IF enc.cur_ind + 1 = code[1] THEN "encode" ELSE "push"
  /\ UNCHANGED <<gfVars, coded, dec>>

\* A timeout or a retransmission cuts the batch short: k becomes what was pushed.
SetCodeInfo ==
  /\ phase = "push" /\ enc.cur_ind > 0
  /\ \E code \in Codes : code[1] = enc.cur_ind /\ enc' = [enc EXCEPT !.k = code[1], !.n = code[2]]
  /\ phase' = "encode"
  /\ UNCHANGED <<gfVars, coded, dec>>

EncodeBatch ==
  /\ phase = "encode"
  /\ LET code == fec_new(enc.k, enc.n)
         src == [i \in Below(enc.k) |-> enc.original[i + 1]]
     IN coded' = [i \in Below(enc.n) |-> fec_encode(code, enc.k, src, i, enc.sz)]
  /\ enc' = [enc EXCEPT !.cur_ind = 0]
  /\ phase' = "pop"
  /\ UNCHANGED <<gfVars, dec>>

\* PopPkt for SendCodedBatch, which puts the packet on the air.
PopPkt ==
  /\ phase = "pop" /\ enc.cur_ind < enc.n
  /\ enc' = [enc EXCEPT !.cur_ind = @ + 1]
  /\ UNCHANGED <<gfVars, coded, phase, dec>>

-----------------------------------------------------------------------------
(* The decoder. k, n and the lengths come with the header of each packet.  *)

\* A packet that was sent arrives: in any order, never, or more than once.
PushReceived(ind) ==
  /\ phase = "pop" /\ ~dec.done /\ dec.cur_ind < enc.k
  /\ ind < enc.cur_ind
  /\ dec' = [dec EXCEPT !.inds = Append(@, ind), !.batch = Append(@, coded[ind]), !.cur_ind = @ + 1]
  /\ UNCHANGED <<gfVars, enc, coded, phase>>

\* A failure of fec_decode is printed and otherwise ignored.
DecodeBatch ==
  /\ phase = "pop" /\ ~dec.done /\ dec.cur_ind = enc.k
  /\ LET k == enc.k
         result == fec_decode(fec_new(k, enc.n), k, [i \in Below(k) |-> dec.batch[i + 1]],
                              [i \in Below(k) |-> dec.inds[i + 1]])
     IN dec' = [dec EXCEPT !.batch = [i \in 1 .. k |-> result.pkt[i - 1]],
                           !.cur_ind = 0, !.done = TRUE]
  /\ UNCHANGED <<gfVars, enc, coded, phase>>

\* PopPkt of the decoder: hands out batch[cur_ind + 1], decoded or not.
PopDecoded ==
  /\ phase = "pop" /\ dec.done /\ dec.cur_ind < enc.k
  /\ dec' = [dec EXCEPT !.cur_ind = @ + 1]
  /\ UNCHANGED <<gfVars, enc, coded, phase>>

\* Broken variant: the size of the longest packet survives.
ClearInfoKeepsSize ==
  /\ phase = "pop" /\ enc.cur_ind = enc.n
  /\ enc' = [ClearedEncoder EXCEPT !.sz = enc.sz] /\ dec' = ClearedDecoder
  /\ coded' = <<>> /\ phase' = "push"
  /\ UNCHANGED gfVars

\* Both sides are done with the batch, decoded or not.
ClearInfo ==
  /\ phase = "pop" /\ enc.cur_ind = enc.n
  /\ enc' = ClearedEncoder /\ dec' = ClearedDecoder
  /\ coded' = <<>> /\ phase' = "push"
  /\ UNCHANGED gfVars

CodeNext ==
  \/ InitFec \/ \E len \in Lens : PushPkt(len) \/ SetCodeInfo \/ EncodeBatch \/ PopPkt
  \/ \E ind \in Elem : PushReceived(ind)
  \/ DecodeBatch \/ PopDecoded \/ ClearInfo

CodeSpec == CodeInit /\ [][CodeNext]_<<gfVars, codeVars>>

-----------------------------------------------------------------------------
Received == {dec.inds[i] : i \in DOMAIN dec.inds}

(***************************************************************************)
(* Any k different packets of the batch, in any order of arrival, give     *)
(* back every packet that was pushed, up to its length: the matrix of      *)
(* fec_new is invertible on every k rows, and shuffle, invert_mat and      *)
(* fec_decode put every packet where its number says (fec.cc:630-839).     *)
(***************************************************************************)
AnyKRecover ==
  dec.done /\ Cardinality(Received) = enc.k =>
    \A i \in Below(enc.k) : \A w \in Below(enc.lens[i + 1]) : dec.batch[i + 1][w] = enc.src[i + 1][w]

(***************************************************************************)
(* When one of the k packets came twice, DecodeBatch only prints, and      *)
(* PopPkt hands out what is in the buffers as if it had been decoded       *)
(* (fec.cc:909-942): those are then the received packets as they came, in  *)
(* another order at most, and nothing that was half decoded. A client that *)
(* recognises them has lost none of them.                                  *)
(***************************************************************************)
UndecodedUntouched ==
  dec.done /\ Cardinality(Received) < enc.k =>
    {dec.batch[i] : i \in 1 .. enc.k} = {coded[ind] : ind \in Received}

(***************************************************************************)
(* A batch is sent with the size of its own longest packet, whatever the   *)
(* batch before it was: ClearInfo leaves nothing behind (fec.cc:866-873).  *)
(***************************************************************************)
SizeIsOwn ==
  phase # "push" => \E i \in 1 .. enc.k : enc.lens[i] = enc.sz

(***************************************************************************)
(* The fast inversion inverts the Vandermonde matrix of every k up to the  *)
(* largest batch and agrees with Gauss-Jordan, which also inverts it with  *)
(* its columns reversed, where pivots lie off the diagonal (fec.cc:391-583).  *)
(***************************************************************************)
VandermondeInverted ==
  gf_pc[sender] = "ready" /\ enc = ClearedEncoder =>
    \A k \in 1 .. MaxBatchSize :
      LET points == Vandermonde(k, k)
          fast == invert_vdm(points, k)
          reversed == [row \in Below(k) |-> [col \in Below(k) |-> points[row][k - 1 - col]]]
          general == invert_mat(reversed, k)
      IN /\ matmul(points, fast, k, k, k) = Identity(k)
         /\ invert_mat(points, k) = [error |-> FALSE, m |-> fast]
         /\ ~general.error /\ matmul(reversed, general.m, k, k, k) = Identity(k)
=============================================================================
