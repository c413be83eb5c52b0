---------------------------- MODULE ProvHttpStream ----------------------------
(***************************************************************************)
(* One TCP connection of prov-http as the stream of bytes it is: requests  *)
(* that arrive cut anywhere, headers read piece by piece into a buffer     *)
(* that may be too small for them, and bodies of which a part came with    *)
(* the header.                                                             *)
(*                                                                         *)
(* Bytes are numbered from 1 as the client sends them; a request is where  *)
(* it starts and how long it is.  The client waits for the answer to a     *)
(* request before it sends the next, and no middle of a request reads as   *)
(* the line of a GET or a POST.                                            *)
(***************************************************************************)
EXTENDS Integers, Sequences

CONSTANTS
    HdrCap,      \* HTTP_HDR_MAX, the room http_handle_client gives to a header
    Chunk,       \* 256, the most that one recv adds to a header
    BodyCap,     \* HTTP_BODY_MAX
    Sendable,    \* what a client may send: kind and length of header and body
    MaxRequests  \* bound: requests of the connection

Mark == 4  \* the empty line that ends a header

\* probe: GET of a captive page.  plain: GET /proto-ver, and what is answered 404
\* without its body being looked at.  post: POST.
ASSUME StreamAssumption ==
    /\ HdrCap \in Nat /\ HdrCap > Mark + 1
    /\ Chunk \in Nat \ {0}
    /\ BodyCap \in Nat
    /\ Sendable \subseteq [kind : {"probe", "plain", "post"}, head : Nat, body : Nat]
    /\ \A r \in Sendable : r.head >= Mark
    /\ MaxRequests \in Nat

VARIABLES
    sent,      \* the requests, each with its start: the bytes sent before it
    answers,   \* how many answers the client has
    arrived,   \* bytes that have arrived
    over,      \* the client is gone, or prov_http_dns_abort is true
    taken,     \* bytes that were taken by recv
    buffered,  \* n, the bytes in hdr[]
    stage,     \* where http_handle_client is
    cur,       \* the request it handles
    want,      \* clen
    body,      \* body[]: the bytes in it
    handled    \* history: the POSTs handled, with the body each was given

clientVars == <<sent, answers, arrived, over>>
threadVars == <<taken, buffered, stage, cur, want, body, handled>>
streamVars == <<clientVars, threadVars>>

Total == IF sent = <<>> THEN 0
         ELSE sent[Len(sent)].start + sent[Len(sent)].head + sent[Len(sent)].body

HeadEnd(k) == sent[k].start + sent[k].head

\* Where the header that is read begins.
Base == taken - buffered

\* strstr(buf, "\r\n\r\n"), with the bytes up to upto in the buffer.
EndsBy(upto) == \E k \in DOMAIN sent : Base + Mark <= HeadEnd(k) /\ HeadEnd(k) <= upto

HeaderFound == EndsBy(taken)

Smaller(a, b) == IF a < b THEN a ELSE b

StreamInit ==
    /\ sent = <<>> /\ answers = 0 /\ arrived = 0 /\ over = FALSE
    /\ taken = 0 /\ buffered = 0 /\ stage = "head"
    /\ cur = 0 /\ want = 0 /\ body = <<>> /\ handled = <<>>

-------------------------------------------------------------------------------
(* The client and the network.                                             *)

ClientSends ==
    /\ ~over /\ answers >= Len(sent) /\ Len(sent) < MaxRequests
    /\ \E r \in Sendable :
          sent' = Append(sent, [start |-> Total, kind |-> r.kind, head |-> r.head,
                                body |-> r.body])
    /\ UNCHANGED <<answers, arrived, over, threadVars>>

BytesArrive ==
    /\ \E upto \in arrived + 1 .. Total : arrived' = upto
    /\ UNCHANGED <<sent, answers, over, threadVars>>

\* The client closes or resets the connection, or the session aborts.
ConnectionEnds ==
    /\ ~over
    /\ over' = TRUE
    /\ UNCHANGED <<sent, answers, arrived, threadVars>>

-------------------------------------------------------------------------------
(* http_handle_client.                                                     *)

\* One turn of read_http_headers, whose loop also ends when the buffer is full.
ReadHeader ==
    /\ stage = "head" /\ taken < arrived
    /\ LET room == Smaller(HdrCap - buffered - 1, Chunk)
           r == Smaller(room, arrived - taken)
       IN  /\ taken' = taken + r /\ buffered' = buffered + r
           /\ stage' = IF EndsBy(taken + r) \/ buffered + r + Mark >= HdrCap
                       THEN "parse" ELSE "head"
    /\ UNCHANGED <<clientVars, cur, want, body, handled>>

\* The peer is gone, or a wait sees the abort.
HangsUp ==
    /\ stage \in {"head", "body"} /\ over
    /\ stage' = "gone"
    /\ UNCHANGED <<clientVars, taken, buffered, cur, want, body, handled>>

\* No request begins where the buffer does: it holds the middle of one.
Astray == \A k \in DOMAIN sent : sent[k].start # Base

\* parse_request_line fails: the middle of a request, or no end of the line in sight.
BadRequest ==
    /\ stage = "parse"
    /\ Astray \/ ~HeaderFound
    /\ stage' = "gone"
    /\ UNCHANGED <<clientVars, taken, buffered, cur, want, body, handled>>

\* An answer reaches the client or is lost.
Answers == answers' = answers + 1 \/ answers' = answers

\* The rest of what came with the header is dropped.
NextHeader == stage' = "head" /\ buffered' = 0

\* Two words in the middle of a request pass for a request line and are answered 404.
Misread ==
    /\ stage = "parse" /\ Astray
    /\ NextHeader
    /\ Answers
    /\ UNCHANGED <<sent, arrived, over, taken, cur, want, body, handled>>

AnswerPlain ==
    /\ stage = "parse"
    /\ \E k \in DOMAIN sent : sent[k].start = Base /\ sent[k].kind # "post"
                              /\ IF sent[k].kind = "probe"
                                 THEN stage' = "gone" /\ UNCHANGED buffered
                                 ELSE NextHeader
    /\ Answers
    /\ UNCHANGED <<sent, arrived, over, taken, cur, want, body, handled>>

MutantContentLength(k) == sent[k].body

\* header_content_length sees no header whose end is not there.
ContentLength(k) == IF HeaderFound THEN sent[k].body ELSE 0

MutantAlready(k) == 0

\* How much of the body came with the header.
Already(k) ==
    IF HeaderFound THEN Smaller(taken - HeadEnd(k), ContentLength(k)) ELSE 0

BeginPost ==
    /\ stage = "parse"
    /\ \E k \in DOMAIN sent :
          /\ sent[k].start = Base /\ sent[k].kind = "post"
          /\ IF ContentLength(k) > BodyCap
             THEN stage' = "gone" /\ UNCHANGED <<cur, want, body>>
             ELSE /\ stage' = "body" /\ cur' = k /\ want' = ContentLength(k)
                  /\ body' = [b \in 1 .. Already(k) |-> HeadEnd(k) + b]
    /\ UNCHANGED <<clientVars, taken, buffered, handled>>

\* One turn of recv_body.
ReadBody ==
    /\ stage = "body" /\ Len(body) < want /\ taken < arrived
    /\ LET r == Smaller(want - Len(body), arrived - taken) IN
       /\ body' = body \o [b \in 1 .. r |-> taken + b]
       /\ taken' = taken + r
    /\ UNCHANGED <<clientVars, buffered, stage, cur, want, handled>>

MutantHandlePost ==
    /\ stage = "body"
    /\ handled' = Append(handled, [req |-> cur, body |-> body])
    /\ NextHeader
    /\ Answers
    /\ UNCHANGED <<sent, arrived, over, taken, cur, want, body>>

MutantHandlePostAgain ==
    /\ stage = "body" /\ Len(body) = want
    /\ handled' = Append(handled, [req |-> cur, body |-> body])
    /\ stage' = "head"
    /\ Answers
    /\ UNCHANGED <<sent, arrived, over, taken, buffered, cur, want, body>>

\* With an answer or, when a command is refused, without one; the handshake not
\* being done ends the connection.
HandlePost ==
    /\ stage = "body" /\ Len(body) = want
    /\ handled' = Append(handled, [req |-> cur, body |-> body])
    /\ \/ NextHeader /\ Answers
       \/ stage' = "gone" /\ UNCHANGED <<buffered, answers>>
    /\ UNCHANGED <<sent, arrived, over, taken, cur, want, body>>

Serve == ReadHeader \/ HangsUp \/ BadRequest \/ Misread \/ AnswerPlain \/ BeginPost
         \/ ReadBody \/ HandlePost

StreamNext == ClientSends \/ BytesArrive \/ ConnectionEnds \/ Serve

StreamSpec == StreamInit /\ [][StreamNext]_streamVars /\ WF_streamVars(Serve)

-------------------------------------------------------------------------------
\* Such a header is read to its end however it is cut.
FitsHeader(r) == r.head <= HdrCap - Mark

\* Of clients that send a body with POST only, and no longer header than fits.
WellBehaved ==
    \A k \in DOMAIN sent :
        FitsHeader(sent[k]) /\ (sent[k].kind # "post" => sent[k].body = 0)

\* A POST is handled with its own body, all of it, however the stream was cut; or
\* with none, when its header does not fit.
BodyIsOwn ==
    \A h \in DOMAIN handled :
        LET r == sent[handled[h].req] IN
        \/ handled[h].body = [b \in 1 .. r.body |-> r.start + r.head + b]
        \/ handled[h].body = <<>> /\ ~FitsHeader(r)

\* No POST is handled twice, or after a later one.
HandledOnce ==
    \A g, h \in DOMAIN handled : g < h => handled[g].req < handled[h].req

\* The thread never takes the middle of one request for the start of the next.
KeepsInStep ==
    WellBehaved /\ stage = "parse" => Len(sent) > 0 /\ Base = sent[Len(sent)].start

\* What has arrived in whole is handled, or the connection is closed: the thread never
\* waits for bytes it has already taken.
HandlesAll ==
    WellBehaved /\ arrived = Total ~> stage = "gone" \/ (stage = "head" /\ taken = Total)
===============================================================================
