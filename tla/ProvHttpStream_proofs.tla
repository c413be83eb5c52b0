------------------------- MODULE ProvHttpStream_proofs ------------------------
(***************************************************************************)
(* Theorems about one connection of prov-http, for every size of its       *)
(* buffers, every mix of requests and every way of cutting the stream.     *)
(***************************************************************************)
EXTENDS ProvHttpStream, TLAPS

-------------------------------------------------------------------------------
(* The inductive invariant.                                                *)

Request == [start : Nat, kind : {"probe", "plain", "post"}, head : Nat, body : Nat]

Types ==
    /\ sent \in Seq(Request) /\ answers \in Nat /\ arrived \in Nat /\ over \in BOOLEAN
    /\ taken \in Nat /\ buffered \in 0 .. taken
    /\ stage \in {"head", "parse", "body", "gone"}
    /\ cur \in Nat /\ want \in Nat
    /\ body \in Seq(Nat) /\ handled \in Seq([req : Nat, body : Seq(Nat)])

EndOf(k) == HeadEnd(k) + sent[k].body

\* Requests follow each other without overlap, and no more is taken than was sent.
InOrder ==
    /\ \A k \in 1 .. Len(sent) : sent[k].head >= Mark
    /\ \A j, k \in 1 .. Len(sent) : j < k => EndOf(j) <= sent[k].start
    /\ \A k \in 1 .. Len(sent) : EndOf(k) <= Total
    /\ taken <= arrived /\ arrived <= Total

\* A request is taken up with its header in the buffer, or with the buffer full.
Readable ==
    /\ stage = "head" => buffered + Mark < HdrCap
    /\ stage = "parse" => HeaderFound \/ buffered + Mark >= HdrCap

\* The body so far: the bytes that follow the header, or none when the header was not
\* seen to its end.
OwnSoFar ==
    stage = "body" =>
        /\ cur \in 1 .. Len(sent) /\ sent[cur].start < taken
        /\ \/ /\ want = sent[cur].body /\ Len(body) <= want
              /\ \A b \in 1 .. Len(body) : body[b] = HeadEnd(cur) + b
              /\ HeadEnd(cur) + Len(body) <= taken
              /\ Len(body) < want => taken = HeadEnd(cur) + Len(body)
           \/ want = 0 /\ body = <<>> /\ ~FitsHeader(sent[cur])

\* What was handled lies before what is read.
Behind ==
    /\ \A h \in 1 .. Len(handled) :
          LET r == handled[h].req IN
          /\ r \in 1 .. Len(sent)
          /\ stage \in {"head", "parse"} => sent[r].start < Base
          /\ stage = "body" => sent[r].start < sent[cur].start

\* With clients that behave, the thread is at the last request or has read all.
AtTheLast ==
    WellBehaved =>
        /\ answers <= Len(sent)
        /\ stage = "head" =>
              \/ Base = Total
              \/ Len(sent) > 0 /\ Base = sent[Len(sent)].start /\ answers < Len(sent)
        /\ stage = "parse" =>
              Len(sent) > 0 /\ Base = sent[Len(sent)].start /\ answers < Len(sent)
        /\ stage = "body" =>
              cur = Len(sent) /\ want = sent[cur].body /\ answers < Len(sent)

Inv == Types /\ InOrder /\ Readable /\ OwnSoFar /\ Behind /\ BodyIsOwn /\ HandledOnce
       /\ AtTheLast

LEMMA Constants ==
    /\ HdrCap \in Nat /\ HdrCap > Mark + 1 /\ Chunk \in Nat \ {0} /\ BodyCap \in Nat
    /\ \A r \in Sendable : /\ r.kind \in {"probe", "plain", "post"}
                           /\ r.head \in Nat /\ r.body \in Nat /\ r.head >= Mark
    /\ Mark = 4
BY StreamAssumption DEF StreamAssumption, Mark

LEMMA Fields ==
    ASSUME Types, NEW k \in 1 .. Len(sent)
    PROVE  /\ sent[k].start \in Nat /\ sent[k].head \in Nat /\ sent[k].body \in Nat
           /\ HeadEnd(k) = sent[k].start + sent[k].head
           /\ EndOf(k) = sent[k].start + sent[k].head + sent[k].body
<1>1. sent[k] \in Request
  BY DEF Types
<1>. QED BY <1>1 DEF Request, HeadEnd, EndOf

LEMMA TotalIsEnd ==
    ASSUME Types
    PROVE  /\ Total \in Nat
           /\ Len(sent) = 0 => Total = 0
           /\ Len(sent) > 0 => Total = EndOf(Len(sent))
<1>1. CASE sent = <<>>
  BY <1>1 DEF Total
<1>2. CASE sent # <<>>
  <2>1. Len(sent) \in 1 .. Len(sent)
    BY <1>2 DEF Types
  <2>. QED BY <1>2, <2>1, Fields DEF Total
<1>. QED BY <1>1, <1>2

LEMMA InitInv == StreamInit => Inv
<1>. SUFFICES ASSUME StreamInit PROVE Inv
  OBVIOUS
<1>1. /\ Len(sent) = 0 /\ Len(handled) = 0 /\ stage = "head" /\ taken = 0 /\ buffered = 0
      /\ arrived = 0 /\ DOMAIN handled = {}
  BY DEF StreamInit
<1>2. Types
  <2>1. /\ sent = <<>> /\ body = <<>> /\ handled = <<>> /\ answers = 0 /\ over = FALSE
        /\ cur = 0 /\ want = 0
    BY DEF StreamInit
  <2>2. <<>> \in Seq(Request) /\ <<>> \in Seq(Nat)
        /\ <<>> \in Seq([req : Nat, body : Seq(Nat)])
    OBVIOUS
  <2>3. /\ sent \in Seq(Request) /\ body \in Seq(Nat)
        /\ handled \in Seq([req : Nat, body : Seq(Nat)])
    BY <2>1, <2>2, Zenon
  <2>4. buffered \in 0 .. taken /\ taken \in Nat /\ arrived \in Nat
    BY <1>1
  <2>. QED BY <1>1, <2>1, <2>3, <2>4, Zenon DEF Types
<1>3. Total = 0 /\ answers = 0
  BY <1>1, <1>2, TotalIsEnd DEF StreamInit
<1>. QED
  BY <1>1, <1>2, <1>3, Constants DEF Inv, InOrder, Readable, OwnSoFar, Behind, BodyIsOwn,
     HandledOnce, AtTheLast, Base

-------------------------------------------------------------------------------
(* Steps of the client and the network.                                    *)

\* A request that begins where another does is that one.
LEMMA StartsDiffer ==
    ASSUME Types, InOrder, NEW j \in 1 .. Len(sent), NEW k \in 1 .. Len(sent),
           sent[j].start <= sent[k].start
    PROVE  j <= k
<1>1. k < j => EndOf(k) <= sent[j].start /\ sent[k].head >= Mark
  BY DEF InOrder
<1>2. /\ EndOf(k) = sent[k].start + sent[k].head + sent[k].body
      /\ sent[k].start \in Nat /\ sent[k].head \in Nat /\ sent[k].body \in Nat
      /\ sent[j].start \in Nat
  BY Fields
<1>3. j \in Int /\ k \in Int
  OBVIOUS
<1>. QED BY <1>1, <1>2, <1>3, Constants

LEMMA SendInv ==
    ASSUME Inv, ClientSends
    PROVE  Inv'
<1>. PICK r \in Sendable :
         sent' = Append(sent, [start |-> Total, kind |-> r.kind, head |-> r.head,
                               body |-> r.body])
  BY DEF ClientSends
<1>. DEFINE new == [start |-> Total, kind |-> r.kind, head |-> r.head, body |-> r.body]
<1>1. Total \in Nat
  BY TotalIsEnd DEF Inv
<1>2. new \in Request /\ new.start = Total /\ new.head >= Mark /\ new.body >= 0
  BY <1>1, Constants DEF Request
<1>. HIDE DEF new
<1>3. /\ sent' = Append(sent, new) /\ sent \in Seq(Request)
      /\ sent' \in Seq(Request) /\ Len(sent') = Len(sent) + 1
      /\ \A k \in 1 .. Len(sent) : sent'[k] = sent[k]
      /\ sent'[Len(sent) + 1] = new
  BY <1>2 DEF Inv, Types, new
<1>4. /\ UNCHANGED <<answers, arrived, over, taken, buffered, stage, cur, want, body, handled>>
      /\ answers >= Len(sent)
  BY DEF ClientSends, threadVars
<1>5. Types'
  BY <1>3, <1>4 DEF Inv, Types
<1>6. /\ \A k \in 1 .. Len(sent) : EndOf(k)' = EndOf(k)
      /\ Total' = new.start + new.head + new.body
      /\ EndOf(Len(sent))' = Total'
  <2>1. \A k \in 1 .. Len(sent) : EndOf(k)' = EndOf(k)
    BY <1>3 DEF EndOf, HeadEnd
  <2>2. Len(sent) \in Nat /\ sent' # <<>> /\ sent'[Len(sent')] = new
    BY <1>3
  <2>3. Total' = new.start + new.head + new.body
    BY <2>2 DEF Total
  <2>4. EndOf(Len(sent))' = new.start + new.head + new.body
    BY <2>2 DEF EndOf, HeadEnd
  <2>. QED BY <1>3, <2>1, <2>3, <2>4
<1>7. InOrder'
  <2>1. /\ new.start = Total /\ Total' >= Total + Mark /\ Total' \in Nat
    BY <1>1, <1>2, <1>6, Constants DEF Request
  <2>2. \A k \in 1 .. Len(sent') : sent'[k].head >= Mark
    BY SMTT(30), <1>2, <1>3 DEF Inv, InOrder, Types
  <2>3. \A j, k \in 1 .. Len(sent') : j < k => EndOf(j)' <= sent'[k].start
    <3>. SUFFICES ASSUME NEW j \in 1 .. Len(sent'), NEW k \in 1 .. Len(sent'), j < k
                  PROVE  EndOf(j)' <= sent'[k].start
      OBVIOUS
    <3>1. j \in 1 .. Len(sent) /\ EndOf(j)' = EndOf(j)
      BY <1>3, <1>6
    <3>2. CASE k = Len(sent) + 1
      <4>1. EndOf(j) <= Total
        BY <3>1 DEF Inv, InOrder
      <4>. QED BY <1>3, <2>1, <3>1, <3>2, <4>1
    <3>3. CASE k \in 1 .. Len(sent)
      <4>1. EndOf(j) <= sent[k].start
        BY <3>1, <3>3 DEF Inv, InOrder
      <4>. QED BY <1>3, <3>1, <3>3, <4>1
    <3>. QED BY <1>3, <3>2, <3>3
  <2>4. \A k \in 1 .. Len(sent) : EndOf(k) \in Nat
    <3>. SUFFICES ASSUME NEW k \in 1 .. Len(sent) PROVE EndOf(k) \in Nat
      OBVIOUS
    <3>1. Types
      BY DEF Inv
    <3>. QED BY <3>1, Fields
  <2>5. \A k \in 1 .. Len(sent') : EndOf(k)' <= Total'
    <3>. SUFFICES ASSUME NEW k \in 1 .. Len(sent') PROVE EndOf(k)' <= Total'
      OBVIOUS
    <3>1. CASE k \in 1 .. Len(sent)
      <4>1. EndOf(k) <= Total /\ EndOf(k) \in Nat
        BY <2>4, <3>1 DEF Inv, InOrder
      <4>. QED BY <1>1, <1>6, <2>1, <3>1, <4>1, Constants
    <3>2. CASE k = Len(sent')
      <4>1. EndOf(k)' = Total'
        BY <1>6, <3>2
      <4>. QED BY <2>1, <4>1
    <3>. QED BY <1>3, <3>1, <3>2
  <2>6. taken' <= arrived' /\ arrived' <= Total'
    BY <1>1, <1>4, <2>1, Constants DEF Inv, InOrder, Types
  <2>. QED BY <2>2, <2>3, <2>5, <2>6 DEF InOrder
<1>8. Readable'
  <2>1. HeaderFound => HeaderFound'
    <3>. SUFFICES ASSUME NEW k \in DOMAIN sent,
                         Base + Mark <= HeadEnd(k), HeadEnd(k) <= taken
                  PROVE  HeaderFound'
      BY DEF HeaderFound, EndsBy
    <3>1. k \in 1 .. Len(sent) /\ k \in DOMAIN sent' /\ sent'[k] = sent[k]
      BY <1>3
    <3>. QED BY <1>4, <3>1 DEF HeaderFound, EndsBy, Base, HeadEnd
  <2>. QED BY <1>4, <2>1 DEF Inv, Readable
<1>9. OwnSoFar' /\ Behind'
  BY SMTT(30), <1>3, <1>4 DEF Inv, OwnSoFar, Behind, Base, HeadEnd, FitsHeader, Types
<1>10. BodyIsOwn' /\ HandledOnce'
  BY SMTT(30), <1>3, <1>4 DEF Inv, Behind, BodyIsOwn, HandledOnce, FitsHeader, Types
<1>11. AtTheLast'
  <2>. SUFFICES ASSUME WellBehaved' PROVE AtTheLast'
    BY DEF AtTheLast
  <2>1. WellBehaved
    BY <1>3 DEF WellBehaved, FitsHeader
  <2>2. /\ stage \in {"head", "gone"} /\ (stage = "head" => Base = Total)
        /\ answers = Len(sent)
    BY <1>4, <2>1 DEF Inv, AtTheLast, Types
  <2>3. Base' = Base /\ new.start = Total
    BY <1>2, <1>4 DEF Base
  <2>. QED
    BY <1>3, <1>4, <2>2, <2>3 DEF AtTheLast, Inv, Types
<1>. QED BY <1>5, <1>7, <1>8, <1>9, <1>10, <1>11 DEF Inv

LEMMA NetworkInv ==
    ASSUME Inv, BytesArrive \/ ConnectionEnds
    PROVE  Inv'
<1>1. CASE BytesArrive
  <2>1. Total \in Nat
    BY TotalIsEnd DEF Inv
  <2>2. arrived' \in Nat /\ arrived' > arrived /\ arrived' <= Total
        /\ UNCHANGED <<sent, answers, over, threadVars>>
    BY <1>1, <2>1 DEF BytesArrive, Inv, Types
  <2>3. Types'
    BY <2>2 DEF threadVars, Inv, Types
  <2>4. InOrder'
    BY <2>1, <2>2 DEF threadVars, Inv, Types, InOrder, Total, EndOf, HeadEnd
  <2>5. Readable' /\ OwnSoFar' /\ Behind' /\ BodyIsOwn' /\ HandledOnce'
    BY <2>2 DEF threadVars, Inv, Readable, OwnSoFar, Behind, BodyIsOwn, HandledOnce, Base,
       HeadEnd, HeaderFound, EndsBy, FitsHeader
  <2>6. AtTheLast'
    BY <2>2 DEF threadVars, Inv, AtTheLast, Total, Base, FitsHeader, WellBehaved
  <2>. QED BY <2>3, <2>4, <2>5, <2>6 DEF Inv
<1>2. CASE ConnectionEnds
  BY <1>2 DEF ConnectionEnds, threadVars, Inv, Types, InOrder, Readable, OwnSoFar, Behind,
     BodyIsOwn, HandledOnce, AtTheLast, Total, Base, EndOf, HeadEnd, HeaderFound, EndsBy,
     FitsHeader, WellBehaved
<1>. QED BY <1>1, <1>2

-------------------------------------------------------------------------------
(* Steps of the thread.                                                    *)

LEMMA ReadHeaderInv ==
    ASSUME Inv, ReadHeader
    PROVE  Inv'
<1>. DEFINE r == Smaller(Smaller(HdrCap - buffered - 1, Chunk), arrived - taken)
<1>0. /\ stage = "head" /\ taken < arrived
      /\ taken' = taken + r /\ buffered' = buffered + r
      /\ stage' = IF EndsBy(taken + r) \/ buffered + r + Mark >= HdrCap THEN "parse" ELSE "head"
      /\ UNCHANGED <<sent, answers, arrived, over, cur, want, body, handled>>
  BY DEF ReadHeader, clientVars
<1>1. /\ r \in Nat /\ r > 0 /\ r <= arrived - taken
      /\ taken' \in Nat /\ buffered' \in 0 .. taken' /\ taken' <= arrived'
      /\ Base' = Base
  <2>1. HdrCap - buffered - 1 > 0 /\ HdrCap - buffered - 1 \in Int
    BY <1>0, Constants DEF Inv, Types, Readable
  <2>2. arrived - taken > 0 /\ arrived - taken \in Int
    BY <1>0 DEF Inv, Types
  <2>3. r \in Nat /\ r > 0 /\ r <= arrived - taken
    BY <2>1, <2>2, Constants DEF Smaller
  <2>. HIDE DEF r
  <2>. QED BY <1>0, <2>3 DEF Inv, Types, Base
<1>. HIDE DEF r
<1>2. stage' \in {"head", "parse"}
  BY <1>0
<1>3. Types'
  BY <1>0, <1>1, <1>2 DEF Inv, Types
<1>4. InOrder'
  BY <1>0, <1>1 DEF Inv, InOrder, EndOf, HeadEnd, Total
<1>5. Readable'
  <2>1. HeaderFound' = EndsBy(taken + r)
    BY <1>0, <1>1 DEF HeaderFound, EndsBy, HeadEnd
  <2>2. buffered' \in Int /\ HdrCap \in Int /\ buffered + r = buffered'
    BY <1>0, <1>1, Constants
  <2>. QED BY <1>0, <2>1, <2>2, Constants DEF Readable
<1>6. OwnSoFar' /\ BodyIsOwn' /\ HandledOnce'
  BY <1>0, <1>2 DEF Inv, OwnSoFar, BodyIsOwn, HandledOnce, FitsHeader
<1>7. Behind'
  BY <1>0, <1>1, <1>2 DEF Inv, Behind
<1>8. AtTheLast'
  <2>. SUFFICES ASSUME WellBehaved' PROVE AtTheLast'
    BY DEF AtTheLast
  <2>1. WellBehaved /\ Total' = Total
    BY <1>0 DEF WellBehaved, FitsHeader, Total
  <2>2. \/ Base = Total
        \/ Len(sent) > 0 /\ Base = sent[Len(sent)].start /\ answers < Len(sent)
    BY <1>0, <2>1 DEF Inv, AtTheLast
  <2>3. Base # Total
    BY <1>0, TotalIsEnd DEF Inv, Types, InOrder, Base
  <2>4. answers <= Len(sent)
    BY <2>1 DEF Inv, AtTheLast
  <2>. QED BY <1>0, <1>1, <1>2, <2>2, <2>3, <2>4 DEF AtTheLast
<1>. QED BY <1>3, <1>4, <1>5, <1>6, <1>7, <1>8 DEF Inv

LEMMA HangsUpInv ==
    ASSUME Inv, HangsUp \/ BadRequest
    PROVE  Inv'
<1>1. /\ stage' = "gone"
      /\ UNCHANGED <<sent, answers, arrived, over, taken, buffered, cur, want, body, handled>>
  BY DEF HangsUp, BadRequest, clientVars
<1>. QED
  BY <1>1 DEF Inv, Types, InOrder, Readable, OwnSoFar, Behind, BodyIsOwn, HandledOnce,
     AtTheLast, Total, Base, EndOf, HeadEnd, HeaderFound, EndsBy, FitsHeader, WellBehaved

\* With the empty line seen, the header that ends first is that of the request that
\* begins where the buffer does.
LEMMA OwnEnd ==
    ASSUME Inv, stage = "parse", NEW k \in 1 .. Len(sent), sent[k].start = Base
    PROVE  /\ HeaderFound => HeadEnd(k) <= taken
           /\ ~HeaderFound => ~FitsHeader(sent[k])
<1>1. /\ sent[k].start \in Nat /\ sent[k].head \in Nat /\ HeadEnd(k) = Base + sent[k].head
      /\ sent[k].head >= Mark
  BY Fields DEF Inv, InOrder
<1>2. taken \in Nat /\ buffered \in 0 .. taken /\ Base = taken - buffered
  BY DEF Inv, Types, Base
<1>3. ASSUME HeaderFound
      PROVE  HeadEnd(k) <= taken
  <2>0. PICK j \in 1 .. Len(sent) : Base + Mark <= HeadEnd(j) /\ HeadEnd(j) <= taken
    BY <1>3 DEF HeaderFound, EndsBy, Inv, Types
  <2>1. /\ sent[j].start \in Nat /\ sent[j].head \in Nat /\ sent[j].body \in Nat
        /\ HeadEnd(j) = sent[j].start + sent[j].head
        /\ EndOf(j) = sent[j].start + sent[j].head + sent[j].body
    BY Fields DEF Inv
  <2>2. j >= k
    <3>1. j < k => EndOf(j) <= sent[k].start
      BY DEF Inv, InOrder
    <3>2. j \in Int /\ k \in Int
      OBVIOUS
    <3>. QED BY <1>1, <1>2, <2>0, <2>1, <3>1, <3>2, Constants
  <2>3. CASE j = k
    BY <2>0, <2>3
  <2>4. CASE k < j
    <3>1. EndOf(k) <= sent[j].start /\ sent[k].body \in Nat
          /\ EndOf(k) = sent[k].start + sent[k].head + sent[k].body
      BY <2>4, Fields DEF Inv, InOrder
    <3>2. HeadEnd(k) \in Nat /\ HeadEnd(j) \in Nat /\ EndOf(k) \in Nat
      <4>1. HeadEnd(k) \in Nat
        <5>1. HeadEnd(k) = sent[k].start + sent[k].head
          BY Fields DEF Inv
        <5>. QED BY <1>1, <5>1
      <4>2. HeadEnd(j) \in Nat
        BY <2>1
      <4>3. EndOf(k) \in Nat
        BY <1>1, <3>1
      <4>. QED BY <4>1, <4>2, <4>3
    <3>3. HeadEnd(k) <= EndOf(k)
      BY <1>1, <3>1
    <3>4. sent[j].start <= HeadEnd(j)
      BY <2>1
    <3>5. HeadEnd(k) <= HeadEnd(j)
      BY <2>1, <3>1, <3>2, <3>3, <3>4
    <3>. QED BY <1>2, <2>0, <3>2, <3>5
  <2>. QED BY <2>2, <2>3, <2>4
<1>4. ASSUME ~HeaderFound
      PROVE  ~FitsHeader(sent[k])
  <2>1. buffered + Mark >= HdrCap
    BY <1>4 DEF Inv, Readable
  <2>2. ~(Base + Mark <= HeadEnd(k) /\ HeadEnd(k) <= taken)
    BY <1>4 DEF HeaderFound, EndsBy, Inv, Types
  <2>3. HeadEnd(k) > taken
    BY <1>1, <1>2, <2>2, Constants
  <2>. QED BY <1>1, <1>2, <2>1, <2>3, Constants DEF FitsHeader
<1>. QED BY <1>3, <1>4

LEMMA AnswerPlainInv ==
    ASSUME Inv, Misread \/ AnswerPlain
    PROVE  Inv'
<1>0. /\ stage = "parse"
      /\ answers' \in {answers, answers + 1}
      /\ UNCHANGED <<sent, arrived, over, taken, cur, want, body, handled>>
      /\ \/ stage' = "gone" /\ buffered' = buffered
         \/ stage' = "head" /\ buffered' = 0
  BY DEF Misread, AnswerPlain, Answers, NextHeader
<1>1. Types'
  BY <1>0 DEF Inv, Types
<1>2. InOrder' /\ OwnSoFar' /\ BodyIsOwn' /\ HandledOnce'
  BY <1>0 DEF Inv, InOrder, EndOf, HeadEnd, Total, OwnSoFar, BodyIsOwn, HandledOnce, FitsHeader
<1>3. Readable'
  BY <1>0, Constants DEF Readable
<1>4. Behind'
  <2>1. stage' = "head" => Base' = taken /\ Base <= taken /\ Base \in Int
    BY <1>0 DEF Inv, Types, Base
  <2>2. \A h \in 1 .. Len(handled) : handled[h].req \in 1 .. Len(sent)
                                      /\ sent[handled[h].req].start < Base
                                      /\ sent[handled[h].req].start \in Nat
    <3>. SUFFICES ASSUME NEW h \in 1 .. Len(handled)
                  PROVE  handled[h].req \in 1 .. Len(sent)
                         /\ sent[handled[h].req].start < Base
                         /\ sent[handled[h].req].start \in Nat
      OBVIOUS
    <3>1. handled[h].req \in 1 .. Len(sent) /\ sent[handled[h].req].start < Base
      BY <1>0 DEF Inv, Behind
    <3>. QED BY <3>1, Fields DEF Inv
  <2>3. taken \in Nat
    BY DEF Inv, Types
  <2>. QED BY <1>0, <2>1, <2>2, <2>3 DEF Behind
<1>5. AtTheLast'
  <2>. SUFFICES ASSUME WellBehaved'
                PROVE  answers' <= Len(sent') /\ (stage' = "head" => Base' = Total')
    BY <1>0 DEF AtTheLast
  <2>1. WellBehaved /\ Total' = Total /\ (stage' = "head" => Base' = taken)
    BY <1>0 DEF WellBehaved, FitsHeader, Total, Base, Inv, Types
  <2>2. /\ Len(sent) \in 1 .. Len(sent) /\ Base = sent[Len(sent)].start
        /\ answers < Len(sent)
    BY <1>0, <2>1 DEF Inv, AtTheLast, Types
  <2>3. AnswerPlain
    BY <2>2 DEF Misread, Astray, Inv, Types
  <2>. PICK k \in 1 .. Len(sent) : sent[k].start = Base /\ sent[k].kind # "post"
    BY <2>3 DEF AnswerPlain, Inv, Types
  <2>4. k = Len(sent)
    <3>1. sent[Len(sent)].start \in Nat /\ sent[k].start \in Nat
      BY <2>2, Fields DEF Inv
    <3>2. Len(sent) <= k
      BY <2>2, <3>1, StartsDiffer DEF Inv
    <3>. QED BY <2>2, <3>2
  <2>5. sent[k].body = 0 /\ HeaderFound
    <3>1. FitsHeader(sent[k]) /\ sent[k].body = 0
      BY <2>1 DEF WellBehaved, Inv, Types
    <3>. QED BY <1>0, <3>1, OwnEnd
  <2>6. HeadEnd(k) <= taken
    BY <1>0, <2>5, OwnEnd
  <2>7. Total = HeadEnd(k) /\ taken <= Total /\ Total \in Nat /\ taken \in Nat
    <3>1. Total = EndOf(k)
      BY <2>2, <2>4, TotalIsEnd DEF Inv
    <3>2. EndOf(k) = sent[k].start + sent[k].head + sent[k].body
          /\ HeadEnd(k) = sent[k].start + sent[k].head
          /\ sent[k].start \in Nat /\ sent[k].head \in Nat
      BY Fields DEF Inv
    <3>3. taken <= arrived /\ arrived <= Total /\ taken \in Nat /\ arrived \in Nat
      BY DEF Inv, InOrder, Types
    <3>. QED BY <2>5, <3>1, <3>2, <3>3, TotalIsEnd DEF Inv
  <2>8. taken = Total
    BY <2>6, <2>7
  <2>9. answers' <= Len(sent')
    BY <1>0, <2>2 DEF Inv, Types
  <2>. QED BY <2>1, <2>8, <2>9
<1>. QED BY <1>1, <1>2, <1>3, <1>4, <1>5 DEF Inv

LEMMA BeginPostInv ==
    ASSUME Inv, BeginPost
    PROVE  Inv'
<1>. PICK k \in 1 .. Len(sent) :
         /\ sent[k].start = Base /\ sent[k].kind = "post"
         /\ IF ContentLength(k) > BodyCap
            THEN stage' = "gone" /\ UNCHANGED <<cur, want, body>>
            ELSE /\ stage' = "body" /\ cur' = k /\ want' = ContentLength(k)
                 /\ body' = [b \in 1 .. Already(k) |-> HeadEnd(k) + b]
  BY DEF BeginPost, Inv, Types
<1>0. /\ stage = "parse"
      /\ UNCHANGED <<sent, answers, arrived, over, taken, buffered, handled>>
  BY DEF BeginPost, clientVars
<1>1. CASE stage' = "gone" /\ UNCHANGED <<cur, want, body>>
  BY <1>0, <1>1 DEF Inv, Types, InOrder, Readable, OwnSoFar, Behind, BodyIsOwn, HandledOnce,
     AtTheLast, Total, Base, EndOf, HeadEnd, HeaderFound, EndsBy, FitsHeader, WellBehaved
<1>2. CASE /\ stage' = "body" /\ cur' = k /\ want' = ContentLength(k)
           /\ body' = [b \in 1 .. Already(k) |-> HeadEnd(k) + b]
  <2>1. /\ sent[k].start \in Nat /\ sent[k].head \in Nat /\ sent[k].body \in Nat
        /\ HeadEnd(k) = sent[k].start + sent[k].head /\ sent[k].head >= Mark
        /\ taken \in Nat
    BY Fields DEF Inv, InOrder, Types
  <2>2. /\ HeaderFound => HeadEnd(k) <= taken
        /\ ~HeaderFound => ~FitsHeader(sent[k])
    BY <1>0, OwnEnd
  <2>3. /\ HeaderFound => ContentLength(k) = sent[k].body
        /\ ~HeaderFound => ContentLength(k) = 0 /\ Already(k) = 0
    BY DEF ContentLength, Already
  <2>4. HeaderFound => Already(k) = Smaller(taken - HeadEnd(k), sent[k].body)
    BY <2>3 DEF Already
  <2>5. Already(k) \in Nat /\ Already(k) <= ContentLength(k) /\ ContentLength(k) \in Nat
    BY <2>1, <2>2, <2>3, <2>4 DEF Smaller
  <2>6. HeaderFound => /\ HeadEnd(k) + Already(k) <= taken
                       /\ Already(k) < ContentLength(k) => taken = HeadEnd(k) + Already(k)
    BY <2>1, <2>2, <2>3, <2>4 DEF Smaller
  <2>7. /\ body' \in Seq(Nat) /\ Len(body') = Already(k)
        /\ \A b \in 1 .. Len(body') : body'[b] = HeadEnd(k) + b
    <3>. DEFINE n == Already(k)
    <3>1. n \in Nat /\ HeadEnd(k) \in Nat
      BY <2>1, <2>5
    <3>2. body' = [b \in 1 .. n |-> HeadEnd(k) + b]
      BY <1>2
    <3>. HIDE DEF n
    <3>3. body' \in [1 .. n -> Nat]
      BY <3>1, <3>2
    <3>4. body' \in Seq(Nat) /\ Len(body') = n
      BY <3>1, <3>2, <3>3
    <3>. QED BY <3>2, <3>4 DEF n
  <2>8. UNCHANGED <<Total, Base, HeaderFound>> /\ HeadEnd(k)' = HeadEnd(k)
        /\ \A j \in 1 .. Len(sent) : EndOf(j)' = EndOf(j)
    BY <1>0 DEF Total, Base, HeaderFound, EndsBy, HeadEnd, EndOf
  <2>9. Types'
    BY <1>0, <1>2, <2>5, <2>7 DEF Inv, Types
  <2>10. InOrder' /\ Readable' /\ BodyIsOwn' /\ HandledOnce'
    BY <1>0, <1>2, <2>8 DEF Inv, InOrder, Readable, BodyIsOwn, HandledOnce, FitsHeader
  <2>11. OwnSoFar'
    <3>1. sent[k].start < taken
      <4>1. CASE HeaderFound
        BY <2>1, <2>2, <4>1, Constants
      <4>2. CASE ~HeaderFound
        <5>1. buffered + Mark >= HdrCap
          BY <1>0, <4>2 DEF Inv, Readable
        <5>2. buffered \in Nat /\ Base = taken - buffered
          BY DEF Inv, Types, Base
        <5>. QED BY <2>1, <5>1, <5>2, Constants
      <4>. QED BY <4>1, <4>2
    <3>2. CASE HeaderFound
      <4>1. HeadEnd(cur)' = HeadEnd(k)
        BY <1>0, <1>2 DEF HeadEnd
      <4>. QED BY <1>0, <1>2, <2>3, <2>5, <2>6, <2>7, <3>1, <3>2, <4>1 DEF OwnSoFar
    <3>3. CASE ~HeaderFound
      <4>1. body' = <<>>
        BY <2>3, <2>7, <3>3
      <4>. QED BY <1>0, <1>2, <2>2, <2>3, <3>1, <3>3, <4>1 DEF OwnSoFar, FitsHeader
    <3>. QED BY <3>2, <3>3
  <2>12. Behind'
    BY <1>0, <1>2 DEF Inv, Behind
  <2>13. AtTheLast'
    <3>. SUFFICES ASSUME WellBehaved' PROVE AtTheLast'
      BY DEF AtTheLast
    <3>1. WellBehaved
      BY <1>0 DEF WellBehaved, FitsHeader
    <3>2. sent[k].start = sent[Len(sent)].start /\ Len(sent) \in 1 .. Len(sent)
          /\ answers < Len(sent)
      BY <1>0, <3>1 DEF Inv, AtTheLast, Types
    <3>3. k = Len(sent)
      <4>1. sent[Len(sent)].start \in Nat
        BY <3>2, Fields DEF Inv
      <4>2. Len(sent) <= k
        BY <2>1, <3>2, <4>1, StartsDiffer DEF Inv
      <4>. QED BY <3>2, <4>2
    <3>4. ContentLength(k) = sent[k].body
      <4>1. FitsHeader(sent[k])
        BY <3>1 DEF WellBehaved, Inv, Types
      <4>. QED BY <2>2, <2>3, <4>1
    <3>5. answers <= Len(sent)
      BY <3>1 DEF Inv, AtTheLast
    <3>. QED BY <1>0, <1>2, <3>2, <3>3, <3>4, <3>5 DEF AtTheLast
  <2>. QED BY <2>9, <2>10, <2>11, <2>12, <2>13 DEF Inv
<1>. QED BY <1>1, <1>2

LEMMA ReadBodyInv ==
    ASSUME Inv, ReadBody
    PROVE  Inv'
<1>. DEFINE r == Smaller(want - Len(body), arrived - taken)
            more == [b \in 1 .. r |-> taken + b]
<1>0. /\ stage = "body" /\ Len(body) < want /\ taken < arrived
      /\ body' = body \o more /\ taken' = taken + r
      /\ UNCHANGED <<sent, answers, arrived, over, buffered, stage, cur, want, handled>>
  BY DEF ReadBody, clientVars
<1>1. /\ cur \in 1 .. Len(sent) /\ sent[cur].start < taken
      /\ want = sent[cur].body /\ Len(body) < want
      /\ \A b \in 1 .. Len(body) : body[b] = HeadEnd(cur) + b
      /\ taken = HeadEnd(cur) + Len(body)
  <2>1. Len(body) \in Nat /\ want \in Nat
    BY DEF Inv, Types
  <2>. QED BY <1>0, <2>1 DEF Inv, OwnSoFar
<1>2. /\ r \in Nat /\ r > 0 /\ r <= arrived - taken /\ r <= want - Len(body)
      /\ taken \in Nat /\ arrived \in Nat /\ want \in Nat /\ Len(body) \in Nat
      /\ body \in Seq(Nat)
  <2>1. /\ taken \in Nat /\ arrived \in Nat /\ want \in Nat /\ Len(body) \in Nat
        /\ body \in Seq(Nat)
    BY DEF Inv, Types
  <2>. QED BY <1>0, <2>1 DEF Smaller
<1>. HIDE DEF r
<1>3. more \in Seq(Nat) /\ Len(more) = r /\ \A b \in 1 .. r : more[b] = taken + b
  <2>1. more \in [1 .. r -> Nat]
    BY <1>2
  <2>. QED BY <1>2, <2>1
<1>. HIDE DEF more
<1>4. /\ body' \in Seq(Nat) /\ Len(body') = Len(body) + r
      /\ \A b \in 1 .. Len(body') :
            body'[b] = IF b <= Len(body) THEN body[b] ELSE more[b - Len(body)]
  <2>1. body' = body \o more /\ body \in Seq(Nat) /\ more \in Seq(Nat)
    BY <1>0, <1>2, <1>3
  <2>2. body' \in Seq(Nat) /\ Len(body') = Len(body) + Len(more)
    BY <2>1
  <2>3. \A b \in 1 .. Len(body) + Len(more) :
           (body \o more)[b] = IF b <= Len(body) THEN body[b] ELSE more[b - Len(body)]
    BY <2>1
  <2>. QED BY <1>3, <2>1, <2>2, <2>3
<1>5. HeadEnd(cur) \in Nat /\ sent[cur].start \in Nat
  <2>1. /\ HeadEnd(cur) = sent[cur].start + sent[cur].head
        /\ sent[cur].start \in Nat /\ sent[cur].head \in Nat
    BY <1>1, Fields DEF Inv
  <2>. QED BY <2>1
<1>6. \A b \in 1 .. Len(body') : body'[b] = HeadEnd(cur) + b
  <2>. SUFFICES ASSUME NEW b \in 1 .. Len(body') PROVE body'[b] = HeadEnd(cur) + b
    OBVIOUS
  <2>1. CASE b <= Len(body)
    <3>1. b \in 1 .. Len(body)
      BY <1>2, <1>4, <2>1
    <3>2. body'[b] = body[b]
      BY <1>4, <2>1
    <3>. QED BY <1>1, <3>1, <3>2
  <2>2. CASE b > Len(body)
    <3>1. b - Len(body) \in 1 .. r /\ body'[b] = more[b - Len(body)]
      BY <1>2, <1>4, <2>2
    <3>2. body'[b] = taken + (b - Len(body))
      BY <1>3, <3>1
    <3>. QED BY <1>1, <1>2, <1>4, <1>5, <3>2
  <2>. QED BY <1>2, <1>4, <2>1, <2>2
<1>7. Types'
  <2>1. taken' \in Nat /\ buffered' \in 0 .. taken'
    BY <1>0, <1>2 DEF Inv, Types
  <2>. QED BY <1>0, <1>4, <2>1 DEF Inv, Types
<1>8. InOrder'
  <2>1. taken' <= arrived'
    BY <1>0, <1>2
  <2>. QED BY <1>0, <2>1 DEF Inv, InOrder, EndOf, HeadEnd, Total
<1>9. OwnSoFar'
  <2>1. HeadEnd(cur)' = HeadEnd(cur)
    BY <1>0 DEF HeadEnd
  <2>2. taken' = HeadEnd(cur) + Len(body') /\ Len(body') <= want /\ sent[cur].start < taken'
    <3>1. taken' = HeadEnd(cur) + Len(body')
      BY <1>0, <1>1, <1>2, <1>4, <1>5
    <3>2. Len(body') <= want
      BY <1>2, <1>4
    <3>3. sent[cur].start < taken'
      <4>1. sent[cur].start < taken /\ sent[cur].start \in Nat
        BY <1>1, <1>5
      <4>2. taken' = taken + r /\ (sent[cur].start)' = sent[cur].start
        BY <1>0
      <4>3. taken \in Nat /\ r \in Nat
        BY <1>2
      <4>. QED BY <4>1, <4>2, <4>3
    <3>. QED BY <3>1, <3>2, <3>3
  <2>3. HeadEnd(cur) + Len(body') <= taken'
    BY <1>2, <1>4, <1>5, <2>2
  <2>. QED BY <1>0, <1>1, <1>6, <2>1, <2>2, <2>3 DEF OwnSoFar
<1>10. Readable' /\ Behind' /\ BodyIsOwn' /\ HandledOnce' /\ AtTheLast'
  BY <1>0 DEF Inv, Readable, Behind, BodyIsOwn, HandledOnce, AtTheLast, FitsHeader,
     WellBehaved
<1>. QED BY <1>7, <1>8, <1>9, <1>10 DEF Inv

LEMMA HandlePostInv ==
    ASSUME Inv, HandlePost
    PROVE  Inv'
<1>. DEFINE new == [req |-> cur, body |-> body]
            m == Len(handled) + 1
<1>0. /\ stage = "body" /\ Len(body) = want
      /\ handled' = Append(handled, new)
      /\ answers' \in {answers, answers + 1}
      /\ UNCHANGED <<sent, arrived, over, taken, cur, want, body>>
      /\ \/ stage' = "gone" /\ buffered' = buffered
         \/ stage' = "head" /\ buffered' = 0
  BY DEF HandlePost, Answers, NextHeader
<1>1. /\ cur \in 1 .. Len(sent) /\ sent[cur].start < taken
      /\ \/ /\ want = sent[cur].body
            /\ \A b \in 1 .. Len(body) : body[b] = HeadEnd(cur) + b
            /\ HeadEnd(cur) + Len(body) <= taken
         \/ body = <<>> /\ ~FitsHeader(sent[cur])
  BY <1>0 DEF Inv, OwnSoFar
<1>2. /\ sent[cur].start \in Nat /\ sent[cur].head \in Nat /\ sent[cur].body \in Nat
      /\ HeadEnd(cur) = sent[cur].start + sent[cur].head
      /\ EndOf(cur) = sent[cur].start + sent[cur].head + sent[cur].body
      /\ taken \in Nat /\ body \in Seq(Nat)
  BY <1>1, Fields DEF Inv, Types
<1>3. new \in [req : Nat, body : Seq(Nat)] /\ new.req = cur /\ new.body = body
  BY <1>1, <1>2 DEF Inv, Types
<1>. HIDE DEF new
<1>4. /\ handled \in Seq([req : Nat, body : Seq(Nat)])
      /\ handled' \in Seq([req : Nat, body : Seq(Nat)])
      /\ Len(handled') = m /\ m \in Nat /\ handled'[m] = new
      /\ \A h \in 1 .. Len(handled) : handled'[h] = handled[h]
      /\ DOMAIN handled = 1 .. Len(handled) /\ DOMAIN handled' = 1 .. m
  BY <1>0, <1>3 DEF Inv, Types
<1>5. \A h \in 1 .. m : h = m \/ h \in 1 .. Len(handled)
  BY <1>4
<1>. HIDE DEF m
<1>6. Types'
  BY <1>0, <1>4 DEF Inv, Types
<1>7. InOrder'
  BY <1>0 DEF Inv, InOrder, EndOf, HeadEnd, Total
<1>8. Readable' /\ OwnSoFar'
  BY <1>0, Constants DEF Readable, OwnSoFar
<1>9. \A h \in 1 .. Len(handled) :
         /\ handled[h].req \in 1 .. Len(sent)
         /\ sent[handled[h].req].start \in Nat
         /\ sent[handled[h].req].start < sent[cur].start
         /\ handled[h].req < cur
  <2>. SUFFICES ASSUME NEW h \in 1 .. Len(handled)
                PROVE  /\ handled[h].req \in 1 .. Len(sent)
                       /\ sent[handled[h].req].start \in Nat
                       /\ sent[handled[h].req].start < sent[cur].start
                       /\ handled[h].req < cur
    OBVIOUS
  <2>1. /\ handled[h].req \in 1 .. Len(sent)
        /\ sent[handled[h].req].start < sent[cur].start
    BY <1>0 DEF Inv, Behind
  <2>2. sent[handled[h].req].start \in Nat
    BY <2>1, Fields DEF Inv
  <2>3. handled[h].req <= cur
    BY <1>1, <1>2, <2>1, <2>2, StartsDiffer DEF Inv
  <2>4. handled[h].req # cur
    BY <1>2, <2>1
  <2>. QED BY <1>1, <2>1, <2>2, <2>3, <2>4
<1>10. Behind'
  <2>1. stage' = "head" => Base' = taken
    BY <1>0, <1>2 DEF Base
  <2>. SUFFICES ASSUME NEW h \in 1 .. m
                PROVE  /\ handled'[h].req \in 1 .. Len(sent)
                       /\ sent[handled'[h].req].start < taken
    BY <1>0, <1>4, <2>1 DEF Behind
  <2>2. CASE h = m
    BY <1>1, <1>3, <1>4, <2>2
  <2>3. CASE h \in 1 .. Len(handled)
    <3>1. handled'[h].req = handled[h].req
      BY <1>4, <2>3
    <3>2. /\ handled[h].req \in 1 .. Len(sent) /\ sent[handled[h].req].start \in Nat
          /\ sent[handled[h].req].start < sent[cur].start
      BY <1>9, <2>3
    <3>. QED BY <1>1, <1>2, <3>1, <3>2
  <2>. QED BY <1>5, <2>2, <2>3
<1>11. BodyIsOwn'
  <2>. SUFFICES ASSUME NEW h \in 1 .. m
                PROVE  LET r == sent[handled'[h].req] IN
                       \/ handled'[h].body = [b \in 1 .. r.body |-> r.start + r.head + b]
                       \/ handled'[h].body = <<>> /\ ~FitsHeader(r)
    BY <1>0, <1>4 DEF BodyIsOwn, FitsHeader
  <2>1. CASE h = m
    <3>1. handled'[h].req = cur /\ handled'[h].body = body
      BY <1>3, <1>4, <2>1
    <3>2. CASE body = <<>> /\ ~FitsHeader(sent[cur])
      BY <3>1, <3>2
    <3>3. CASE /\ want = sent[cur].body
               /\ \A b \in 1 .. Len(body) : body[b] = HeadEnd(cur) + b
      <4>1. body = [b \in 1 .. Len(body) |-> body[b]]
        BY <1>2
      <4>2. Len(body) = sent[cur].body
        BY <1>0, <3>3
      <4>3. body = [b \in 1 .. sent[cur].body |-> sent[cur].start + sent[cur].head + b]
        BY <1>2, <3>3, <4>1, <4>2
      <4>. QED BY <3>1, <4>3
    <3>. QED BY <1>1, <3>2, <3>3
  <2>2. CASE h \in 1 .. Len(handled)
    BY <1>4, <2>2 DEF Inv, BodyIsOwn
  <2>. QED BY <1>5, <2>1, <2>2
<1>12. HandledOnce'
  <2>. SUFFICES ASSUME NEW g \in 1 .. m, NEW h \in 1 .. m, g < h
                PROVE  handled'[g].req < handled'[h].req
    BY <1>4 DEF HandledOnce
  <2>1. g \in 1 .. Len(handled)
    BY <1>4, <1>5
  <2>2. CASE h = m
    BY <1>3, <1>4, <1>9, <2>1, <2>2
  <2>3. CASE h \in 1 .. Len(handled)
    BY <1>4, <2>1, <2>3 DEF Inv, HandledOnce
  <2>. QED BY <1>5, <2>2, <2>3
<1>13. AtTheLast'
  <2>. SUFFICES ASSUME WellBehaved'
                PROVE  answers' <= Len(sent') /\ (stage' = "head" => Base' = Total')
    BY <1>0 DEF AtTheLast
  <2>1. WellBehaved /\ Total' = Total /\ (stage' = "head" => Base' = taken)
    BY <1>0, <1>2 DEF WellBehaved, FitsHeader, Total, Base
  <2>2. /\ cur = Len(sent) /\ FitsHeader(sent[cur]) /\ want = sent[cur].body
        /\ answers < Len(sent)
    BY <1>0, <1>1, <2>1 DEF Inv, AtTheLast, WellBehaved, Types
  <2>3. Total = EndOf(cur) /\ Total \in Nat
    BY <1>1, <2>2, TotalIsEnd DEF Inv
  <2>4. HeadEnd(cur) + Len(body) <= taken
    <3>1. body = <<>> => Len(body) = 0
      OBVIOUS
    <3>. QED BY <1>1, <2>2
  <2>5. taken <= Total
    BY <1>2, <2>3 DEF Inv, InOrder, Types
  <2>6. answers' <= Len(sent')
    BY <1>0, <2>2 DEF Inv, Types
  <2>7. taken = Total
    BY <1>0, <1>2, <2>2, <2>3, <2>4, <2>5
  <2>. QED BY <2>1, <2>6, <2>7
<1>. QED BY <1>6, <1>7, <1>8, <1>10, <1>11, <1>12, <1>13 DEF Inv

LEMMA InvStep ==
    ASSUME Inv, [StreamNext]_streamVars
    PROVE  Inv'
<1>1. CASE StreamNext
  BY <1>1, SendInv, NetworkInv, ReadHeaderInv, HangsUpInv, AnswerPlainInv, BeginPostInv,
     ReadBodyInv, HandlePostInv DEF StreamNext, Serve
<1>2. CASE UNCHANGED streamVars
  BY <1>2 DEF streamVars, clientVars, threadVars, Inv, Types, InOrder, Readable, OwnSoFar,
     Behind, BodyIsOwn, HandledOnce, AtTheLast, Total, Base, EndOf, HeadEnd, HeaderFound,
     EndsBy, FitsHeader, WellBehaved
<1>. QED BY <1>1, <1>2

\* The invariant of one connection, whatever its requests and however they are cut.
THEOREM Invariant == StreamSpec => []Inv
<1>. QED BY InitInv, InvStep, PTL DEF StreamSpec

-------------------------------------------------------------------------------
(* What it gives.                                                          *)

\* A POST is handled with its own body, or with none when its header does not fit the
\* buffer of http_handle_client.
THEOREM BodyIsOwnHolds == StreamSpec => []BodyIsOwn
<1>1. Inv => BodyIsOwn
  BY DEF Inv
<1>. QED BY <1>1, Invariant, PTL

\* http_handle_client handles the POSTs of a connection in their order, each once.
THEOREM HandledOnceHolds == StreamSpec => []HandledOnce
<1>1. Inv => HandledOnce
  BY DEF Inv
<1>. QED BY <1>1, Invariant, PTL

\* What prov-http parses as a request begins where a request does, when no client
\* sends a body the code leaves unread.
THEOREM KeepsInStepHolds == StreamSpec => []KeepsInStep
<1>1. Inv => KeepsInStep
  BY DEF Inv, AtTheLast, KeepsInStep
<1>. QED BY <1>1, Invariant, PTL
===============================================================================
