--------------------------------- MODULE MCWire --------------------------------
(***************************************************************************)
(* What goes over the wire, in one instance: a behaviour is of the codec   *)
(* or of one connection of prov-http, and the other rests.                 *)
(*                                                                         *)
(* The header buffer is scaled down to 11 bytes and a recv to 3: headers   *)
(* of 7 bytes fit, of 9 fit or not by how they are cut, of 13 never.       *)
(***************************************************************************)
EXTENDS MCPb, ProvHttpStream

SendableDef ==
    [kind : {"post"}, head : {7, 9, 13}, body : {0, 2, 4}]
        \cup [kind : {"plain"}, head : {5}, body : {0, 2}]
        \cup [kind : {"probe"}, head : {6}, body : {0}]

StreamIdle ==
    /\ sent = <<>> /\ answers = 0 /\ arrived = 0 /\ over = TRUE
    /\ taken = 0 /\ buffered = 0 /\ stage = "gone"
    /\ cur = 0 /\ want = 0 /\ body = <<>> /\ handled = <<>>

codecVars == <<pbVars, pageVars>>

WireInit ==
    \/ Init /\ StreamIdle
    \/ PbIdle /\ PageIdle /\ StreamInit

WireNext ==
    \/ Next /\ UNCHANGED streamVars
    \/ StreamNext /\ UNCHANGED codecVars

WireSpec ==
    /\ WireInit /\ [][WireNext]_<<codecVars, streamVars>>
    /\ WF_codecVars(Next) /\ WF_streamVars(Serve)
===============================================================================
