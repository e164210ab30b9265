------------------------------ MODULE UdpClass ------------------------------
(***************************************************************************)
(* What a UDP flow is.  Every packet is shown to all analysers in the      *)
(* order plugin.c calls them (Skype, peer to peer, RTP, behavioural), and  *)
(* each of them may change the type of its direction or of both; when the  *)
(* flow is closed they are called once more, to count the flow in the      *)
(* histograms of application protocols.  One flow, its two directions and  *)
(* all the analysers.                                                      *)
(***************************************************************************)
EXTENDS Integers, Sequences, FiniteSets

CONSTANTS
    Confs,         \* [ports, bayes, located, snap, payloads]: the kind of the
                   \* ports, the options and the payloads of a flow
    MaxPackets,    \* bound: packets of the flow
    MaxUtp,        \* MAX_UDP_UTP 40, MAX_UDP_VOD 40, MAX_UDP_OBFUSCATE 10:
    MaxVod,        \* the first packets the behavioural checks look at
    MaxObfuscate,
    MinSkypePkts,  \* MIN_SKYPE_PKTS 10
    MinSkypeNum,   \* MIN_SKYPE_E2E_NUM and MIN_SKYPE_OUT_NUM, 100
    EarlyPackets   \* 200: more, in more than 20 seconds, classify early

Dirs == {"c2s", "s2c"}
Other(d) == IF d = "c2s" THEN "s2c" ELSE "c2s"

RtpTypes == {"RTP", "RTCP"}
FirstTypes == {"FIRST_RTP", "FIRST_RTCP"}
SkypeFlows == {"SKYPE_E2E", "SKYPE_OUT"}
SkypeTypes == SkypeFlows \cup {"SKYPE_SIG"}
P2pTypes == {"P2P_EDK", "P2P_KAD", "P2P_BT", "P2P_PPLIVE", "DNS", "UDP_SIP"}
Types == {"UNKNOWN", "P2P_UTP", "P2P_UTPBT", "UDP_VOD"}
         \cup FirstTypes \cup RtpTypes \cup SkypeTypes \cup P2pTypes

KadRequests == {"REQ43", "REQ59"}
KadReplies == {"RES52_K25", "RES68_K25", "SIZEX_22", "SIZEX_52", "SIZE_IN_46_57"}
KadStates == {"UNKNOWN"} \cup KadRequests \cup KadReplies

UtpSent == {"DATA_SENT", "ACK_SENT", "SYN_SENT"}
UtpSeen == {"DATA_SEEN", "ACK_SEEN", "SYN_SEEN"}
Seen(u) == CASE u = "DATA_SENT" -> "DATA_SEEN"
             [] u = "ACK_SENT" -> "ACK_SEEN"
             [] u = "SYN_SENT" -> "SYN_SEEN"

SkypePkts == {"NOT", "SIG", "E2E", "OUT"}
Verdicts == {"no", "SKYPE_E2E", "SKYPE_E2O"}
NoVerdict == [d \in Dirs |-> "no"]

(***************************************************************************)
(* The payload of a packet is what the analysers see in it: a header of    *)
(* uTP (kind, connection, sequence or acknowledged number), a signature of *)
(* ipp2p, an RTP or RTCP header, the UDP length, the first byte of two     *)
(* MPEG cells, a Skype function and the identifier of a SkypeOut block.    *)
(***************************************************************************)
NoPayload == [utp |-> "no", conn |-> 0, useq |-> 0, p2p |-> "no", v2 |-> FALSE,
              rtcp |-> FALSE, ssrc |-> 0, ts |-> 0, seq |-> 0, len |-> 30,
              sig |-> <<1, 1>>, skype |-> "NOT", block |-> 0]

Payload == [utp : {"no", "data", "state", "syn", "fin", "reset"}, conn : Nat, useq : Nat,
            p2p : {"no"} \cup P2pTypes, v2 : BOOLEAN, rtcp : BOOLEAN, ssrc : Nat,
            ts : Nat, seq : Nat, len : Nat, sig : Nat \X Nat, skype : SkypePkts,
            block : Nat]

ASSUME UdpClassAssumption ==
    /\ Confs \subseteq [ports : {"even", "odd", "dns", "ntp"}, bayes : BOOLEAN,
                        located : BOOLEAN, snap : BOOLEAN, payloads : SUBSET Payload]
    /\ {MaxPackets, MaxUtp, MaxVod, MaxObfuscate} \subseteq Nat
    /\ {MinSkypePkts, MinSkypeNum, EarlyPackets} \subseteq Nat \ {0}

VodLen == 1324
Sync == 71

VARIABLES
    conf,      \* the flow and the options of the run
    ucb,       \* the two directions
    kad,       \* pup->kad_state
    counted,   \* application protocols added to L7_UDP_num, per direction
    aged,      \* directions whose first packet is 20 seconds old
    sent,      \* ghost: the payloads each direction sent
    streak,    \* ghost: MPEG-sized packets in a row with one signature
    dropped,   \* ghost: streams of RTP or RTCP, once confirmed, that were given
               \* up or overridden by another label, per direction
    status     \* "open", "closed" or "exited"

classVars == <<conf, ucb, kad, counted, aged, sent, streak, dropped, status>>

\* A flow while a packet passes through the analysers.
Flow == [ucb |-> ucb, kad |-> kad, counted |-> counted, exited |-> FALSE]

Packets(f) == f.ucb["c2s"].packets + f.ucb["s2c"].packets

\* utp_alloc and NewUTP: everything zero, first_VOD too.
NewDir == [type |-> "UNKNOWN", packets |-> 0, utp |-> "UNKNOWN", conn |-> 0,
           synseq |-> 0, isUtp |-> FALSE, kad |-> "UNKNOWN", obf |-> FALSE,
           lastLen |-> 0, sig |-> <<0, 0>>, count |-> 0, first |-> FALSE,
           isVod |-> FALSE, stream |-> <<0, 0>>, num |-> [t \in SkypePkts |-> 0],
           block |-> 0, early |-> FALSE, skype |-> "no"]

(***************************************************************************)
(* Skype (skype.c).  The Bayesian classifiers and the chi-square tests of  *)
(* a direction are a verdict v, any of the three when it had packets.      *)
(***************************************************************************)
\* A block repeated is SkypeOut, whatever function its bytes look like.
SkypePkt(b, p) == IF b.block # 0 /\ b.block = p.block THEN "OUT" ELSE p.skype

Percent(n, b) == n * 100 > 90 * b.packets

SkypeType(b) ==
    CASE b.num["E2E"] > MinSkypeNum /\ Percent(b.num["E2E"], b) -> "SKYPE_E2E"
      [] b.num["OUT"] > MinSkypeNum /\ Percent(b.num["OUT"], b) -> "SKYPE_OUT"
      [] ((b.num["SIG"] + b.num["E2E"] + b.num["OUT"]) * 100) \div b.packets > 90
            -> "SKYPE_SIG"
      [] OTHER -> IF b.type \in FirstTypes THEN "UNKNOWN" ELSE b.type

\* The types the deterministic classifier does not touch.
Settled == RtpTypes \cup SkypeTypes \cup (P2pTypes \ {"P2P_KAD", "DNS"})

Examined(b) == b.packets >= MinSkypePkts /\ b.type \notin Settled
Lost(b) == b.packets >= MinSkypePkts /\ b.type \in SkypeTypes /\ ~b.early

\* print_skype_conn_stats_UDP: both directions are judged, and counted, when
\* one of them has just been classified.
PrintSkype(f, v) ==
    LET yes(d) == v[d] # "no" /\ f.ucb[d].packets > 0 IN
    [f EXCEPT !.ucb = [d \in Dirs |->
                  IF yes(d) THEN [f.ucb[d] EXCEPT !.skype = v[d]] ELSE f.ucb[d]],
              !.counted = [d \in Dirs |->
                  IF yes(d) /\ conf.located THEN Append(f.counted[d], v[d])
                                            ELSE f.counted[d]]]

\* skype_conn_stats_UDP.
SkypeStats(f, v) ==
    LET g == [f EXCEPT !.exited = \E d \in Dirs : Lost(f.ucb[d]),
                       !.ucb = [d \in Dirs |->
                           IF Examined(f.ucb[d])
                           THEN [f.ucb[d] EXCEPT !.type = SkypeType(f.ucb[d])]
                           ELSE f.ucb[d]]]
    IN  IF \E d \in Dirs : Examined(f.ucb[d]) /\ g.ucb[d].type \in SkypeTypes
        THEN PrintSkype(g, v) ELSE g

EarlyTime(f, d) ==
    /\ d \in aged /\ f.ucb[d].packets > EarlyPackets /\ ~f.ucb[d].early

\* Mutant: only the direction of the packet is marked.
SkypeFlowStat_Bug(f, d, p, v) ==
    LET g == [f EXCEPT !.ucb[d].num[SkypePkt(f.ucb[d], p)] = @ + 1,
                       !.ucb[d].block = p.block]
    IN  IF ~conf.bayes THEN f
        ELSE IF EarlyTime(g, d) THEN SkypeStats([g EXCEPT !.ucb[d].early = TRUE], v)
        ELSE g

\* skype_flow_stat, registered only with the Bayesian engine.
SkypeFlowStat(f, d, p, v) ==
    LET g == [f EXCEPT !.ucb[d].num[SkypePkt(f.ucb[d], p)] = @ + 1,
                       !.ucb[d].block = p.block]
        marked == [e \in Dirs |-> [g.ucb[e] EXCEPT !.early = TRUE]]
    IN  IF ~conf.bayes THEN f
        ELSE IF EarlyTime(g, d) THEN SkypeStats([g EXCEPT !.ucb = marked], v)
        ELSE g

(***************************************************************************)
(* Peer to peer (p2p.c): the first signature of ipp2p that matches.        *)
(***************************************************************************)
P2pFlowStat(f, d, p) ==
    CASE p.p2p = "no" -> f
      [] p.p2p = "P2P_BT" -> [f EXCEPT !.ucb[d].type =
                                  IF @ = "P2P_UTP" THEN "P2P_UTPBT" ELSE "P2P_BT"]
      [] p.p2p = "P2P_PPLIVE" /\ conf.ports = "dns" -> f
      [] OTHER -> [f EXCEPT !.ucb[d].type = p.p2p]

(***************************************************************************)
(* RTP and RTCP (rtp.c).  stream is the flow union: the source and, of an  *)
(* RTP stream, the first number.  An RTCP packet is an RTP packet as well. *)
(***************************************************************************)
InitRtp(b, p) ==
    CASE p.v2 /\ p.rtcp /\ conf.ports = "odd" ->
            [b EXCEPT !.type = "FIRST_RTCP", !.stream = <<p.ts, 0>>]
      [] p.v2 /\ conf.ports = "even" ->
            [b EXCEPT !.type = "FIRST_RTP", !.stream = <<p.ssrc, p.seq>>]
      [] OTHER -> b

\* The next packet of the direction must continue the stream.
ContinuesRtp(b, p) ==
    /\ p.v2 /\ b.stream[1] = p.ssrc
    /\ b.type = "FIRST_RTP" => p.seq = b.stream[2] + 1

ContinuesRtcp(b, p) == p.v2 /\ p.rtcp /\ b.stream[1] = p.ts

Continues(b, p) == IF b.type \in {"FIRST_RTP", "RTP"} THEN ContinuesRtp(b, p)
                                                     ELSE ContinuesRtcp(b, p)

\* Mutant: a stream stays to be confirmed, and is counted at every packet.
Confirm_Bug(f, d, type) ==
    [f EXCEPT !.counted[d] = IF conf.located THEN Append(@, type) ELSE @]

\* A stream confirmed by its second packet is counted at once.
Confirm(f, d, type) ==
    [f EXCEPT !.ucb[d].type = type,
              !.counted[d] = IF conf.located THEN Append(@, type) ELSE @]

RtpFlowStat(f, d, p) ==
    LET b == f.ucb[d] IN
    CASE b.type = "UNKNOWN" -> [f EXCEPT !.ucb[d] = InitRtp(b, p)]
      [] b.type \in FirstTypes \cup RtpTypes ->
            IF ~Continues(b, p) THEN [f EXCEPT !.ucb[d].type = "UNKNOWN"]
            ELSE IF b.type = "FIRST_RTP" THEN Confirm(f, d, "RTP")
            ELSE IF b.type = "FIRST_RTCP" THEN Confirm(f, d, "RTCP")
            ELSE f
      [] OTHER -> f

(***************************************************************************)
(* The behavioural checks (udp.c), on the first packets of a flow.         *)
(***************************************************************************)
UtpHeaders == {"data", "state", "syn"}
SentState(u) == CASE u = "data" -> "DATA_SENT" [] u = "state" -> "ACK_SENT"
                  [] u = "syn" -> "SYN_SENT"

\* The side that has not seen a header of the other says what it sent.
UtpOpens(b, p) ==
    \/ b.utp \in {"UNKNOWN"} \cup UtpSent /\ p.utp \in UtpHeaders
    \/ b.utp = "SYN_SEEN" /\ p.utp = "syn"

\* The side that has seen one answers it, with its connection or the next.
UtpAnswers(b, o, p) ==
    LET near == p.conn = o.conn + 1 \/ p.conn = o.conn - 1 IN
    \/ b.utp = "SYN_SEEN" /\ p.conn = o.conn /\ p.utp \in {"fin", "reset"}
    \/ b.utp = "SYN_SEEN" /\ p.conn = o.conn /\ p.utp = "state" /\ p.useq = o.synseq
    \/ b.utp \in {"DATA_SEEN", "ACK_SEEN"} /\ p.utp \in {"data", "fin", "state"} /\ near
    \/ b.utp \in {"DATA_SEEN", "ACK_SEEN"} /\ p.utp = "reset" /\ p.conn = o.conn

UtpType(type) == IF type = "P2P_BT" THEN "P2P_UTPBT" ELSE "P2P_UTP"

UtpAgreed(b) == [b EXCEPT !.isUtp = TRUE, !.type = UtpType(@)]

\* Mutant: a side that has seen a header keeps waiting for its answer.
CheckUtp_Bug(f, d, p) ==
    LET b == f.ucb[d]
        o == f.ucb[Other(d)]
    IN  IF b.isUtp /\ o.isUtp THEN f
        ELSE IF UtpOpens(b, p)
        THEN [f EXCEPT !.ucb[d].utp = SentState(p.utp), !.ucb[d].conn = p.conn,
                       !.ucb[d].synseq = IF p.utp = "syn" THEN p.useq ELSE @,
                       !.ucb[Other(d)].utp = IF @ \in UtpSeen THEN @ ELSE Seen(SentState(p.utp))]
        ELSE IF UtpAnswers(b, o, p)
        THEN [f EXCEPT !.ucb[d] = [UtpAgreed(b) EXCEPT !.conn = p.conn],
                       !.ucb[Other(d)] = UtpAgreed(o)]
        ELSE f

\* check_uTP: both directions become uTP together.
CheckUtp(f, d, p) ==
    LET b == f.ucb[d]
        o == f.ucb[Other(d)]
    IN  IF b.isUtp /\ o.isUtp THEN f
        ELSE IF UtpOpens(b, p)
        THEN [f EXCEPT !.ucb[d].utp = SentState(p.utp), !.ucb[d].conn = p.conn,
                       !.ucb[d].synseq = IF p.utp = "syn" THEN p.useq ELSE @,
                       !.ucb[Other(d)].utp = Seen(SentState(p.utp))]
        ELSE IF UtpAnswers(b, o, p)
        THEN [f EXCEPT !.ucb[d] = [UtpAgreed(b) EXCEPT !.conn = p.conn],
                       !.ucb[Other(d)] = UtpAgreed(o)]
        ELSE f

\* check_udp_vod: MPEG cells by their first bytes, or three packets of the size
\* of seven cells that begin alike.  The second cell may not be captured.
Signature(p) == IF conf.snap THEN p.sig ELSE <<p.sig[1], -1>>
MpegCell(p) == p.len = VodLen /\ p.sig[1] = Sync /\ (conf.snap => p.sig[2] = Sync)

\* Mutant: the second cell is not compared.
SameSignature_Bug(b, p) == b.sig[1] = p.sig[1]

SameSignature(b, p) ==
    b.sig[1] = p.sig[1] /\ (conf.snap => b.sig[2] = p.sig[2])

CheckVod(f, d, p) ==
    LET b == f.ucb[d]
        vod(c) == [c EXCEPT !.isVod = TRUE, !.type = "UDP_VOD"]
        found(c) == [f EXCEPT !.ucb[d] = vod(c), !.ucb[Other(d)] = vod(f.ucb[Other(d)])]
    IN  IF b.isVod /\ f.ucb[Other(d)].isVod THEN f
        ELSE IF p.len # VodLen THEN [f EXCEPT !.ucb[d].first = TRUE]
        ELSE IF MpegCell(p) THEN found([b EXCEPT !.first = FALSE])
        ELSE IF b.first THEN [f EXCEPT !.ucb[d].first = FALSE, !.ucb[d].count = 1,
                                       !.ucb[d].sig = Signature(p)]
        ELSE IF ~SameSignature(b, p) THEN [f EXCEPT !.ucb[d].first = TRUE]
        ELSE IF b.count + 1 = 3 THEN found([b EXCEPT !.count = 3])
        ELSE [f EXCEPT !.ucb[d].count = @ + 1]

\* check_udp_obfuscate: pairs of packet lengths of obfuscated Kad.
Multiple(len, base) == len >= base /\ (len - base) % 25 = 0

KadVerdict(o, len) ==
    CASE len = 22 /\ o.lastLen \in 36..70 -> "SIZEX_22"
      [] Multiple(len, 52) /\ o.kad = "REQ43" -> "RES52_K25"
      [] len = 52 /\ o.kad # "REQ43" /\ o.lastLen \in 46..57 -> "SIZEX_52"
      [] Multiple(len, 68) /\ o.kad = "REQ59" -> "RES68_K25"
      [] len \in (46..57) \ {52} /\ o.lastLen \in 46..57 -> "SIZE_IN_46_57"
      [] OTHER -> "UNKNOWN"

CheckObfuscate(f, d, p) ==
    LET b == f.ucb[d]
        o == f.ucb[Other(d)]
        verdict == KadVerdict(o, p.len)
        asks == CASE p.len = 43 -> "REQ43" [] p.len = 59 -> "REQ59" [] OTHER -> "no"
        reply == Multiple(p.len, 52) \/ Multiple(p.len, 68)
        noted == [f EXCEPT !.ucb[d].lastLen = p.len]
    IN  IF b.obf \/ o.obf THEN f
        ELSE IF asks # "no" THEN [noted EXCEPT !.ucb[d].kad = asks]
        ELSE IF verdict # "UNKNOWN"
        THEN [noted EXCEPT !.kad = verdict, !.ucb[Other(d)].kad = verdict,
                           !.ucb[Other(d)].obf = TRUE]
        ELSE IF p.len = 22 THEN noted
        ELSE [noted EXCEPT !.ucb[Other(d)].kad = "UNKNOWN",
                           !.ucb[d].kad = IF reply THEN @ ELSE "UNKNOWN"]

Behavioural(f, d, p) ==
    LET n == Packets(f)
        f1 == IF n < MaxUtp THEN CheckUtp(f, d, p) ELSE f
        f2 == IF n < MaxVod THEN CheckVod(f1, d, p) ELSE f1
    IN  IF n < MaxObfuscate THEN CheckObfuscate(f2, d, p) ELSE f2

\* The order of the plugins, which are called last registered first.
Analysers(f, d, p) ==
    Behavioural(RtpFlowStat(P2pFlowStat(f, d, p), d, p), d, p)

\* The directions that were a confirmed stream in f and are not in g.
Gone(f, g) == {e \in Dirs : f.ucb[e].type \in RtpTypes /\ g.ucb[e].type \notin RtpTypes}

\* Those of a packet: a stream that its own packet confirms may go with it.
Drops(f, d, p) ==
    LET g == RtpFlowStat(P2pFlowStat(f, d, p), d, p)
        went(e) == (IF e \in Gone(f, g) THEN 1 ELSE 0)
                   + (IF e \in Gone(g, Behavioural(g, d, p)) THEN 1 ELSE 0)
    IN  [e \in Dirs |-> dropped[e] + went(e)]

(***************************************************************************)
(* The histograms of application protocols, when the flow is closed.       *)
(***************************************************************************)
L7Type(f, b) ==
    CASE b.type \in {"P2P_UTP", "P2P_UTPBT"} -> "UTP"
      [] b.type \in {"UNKNOWN"} \cup FirstTypes ->
            IF f.kad \in KadReplies /\ conf.ports # "ntp" THEN "OBF_KAD" ELSE "UNKNOWN"
      [] OTHER -> b.type

\* The types that are left to the analysers that found them.
Claimed(b) == b.type \in RtpTypes \cup SkypeFlows

\* make_p2p_conn_stats.
P2pConnStats(f) ==
    IF \E d \in Dirs : Claimed(f.ucb[d]) THEN f
    ELSE [f EXCEPT !.counted = [d \in Dirs |->
             IF d = "c2s" \/ f.ucb[d].packets > 0
             THEN Append(@[d], L7Type(f, f.ucb[d])) ELSE @[d]]]

\* make_udp_conn_stats: a flow of two external hosts is not counted at all.
ConnStats(f, v) ==
    LET g == IF conf.bayes THEN SkypeStats(f, v) ELSE f IN
    IF ~conf.located THEN f ELSE IF g.exited THEN g ELSE P2pConnStats(g)

------------------------------
ClassInit ==
    /\ conf \in Confs
    /\ ucb = [d \in Dirs |-> NewDir] /\ kad = "UNKNOWN"
    /\ counted = [d \in Dirs |-> <<>>] /\ aged = {}
    /\ sent = [d \in Dirs |-> {}] /\ streak = [d \in Dirs |-> <<<<0, 0>>, 0>>]
    /\ dropped = [d \in Dirs |-> 0]
    /\ status = "open"

Becomes(f) ==
    /\ ucb' = f.ucb /\ kad' = f.kad /\ counted' = f.counted

Streak(d, p) ==
    IF p.len # VodLen THEN <<<<0, 0>>, 0>>
    ELSE IF streak[d][1] = Signature(p) THEN <<streak[d][1], streak[d][2] + 1>>
    ELSE <<Signature(p), 1>>

\* udp_flow_stat and proto_analyzer; the first packet defines the client.
Packet(d, p) ==
    /\ status = "open" /\ Packets(Flow) < MaxPackets
    /\ d = "s2c" => ucb["c2s"].packets > 0
    /\ LET f0 == [Flow EXCEPT !.ucb[d].packets = @ + 1]
           judged == conf.bayes /\ EarlyTime(f0, d)
       IN  \E v \in IF judged THEN [Dirs -> Verdicts] ELSE {NoVerdict} :
             LET f == SkypeFlowStat(f0, d, p, v)
             IN  IF f.exited THEN Becomes(f) /\ status' = "exited" /\ dropped' = dropped
                 ELSE /\ Becomes(Analysers(f, d, p)) /\ status' = status
                      /\ dropped' = Drops(f, d, p)
    /\ sent' = [sent EXCEPT ![d] = @ \cup {p}]
    /\ streak' = IF ucb[d].isVod THEN streak ELSE [streak EXCEPT ![d] = Streak(d, p)]
    /\ UNCHANGED <<conf, aged>>

\* 20 seconds pass (SKYPE_EARLY_CLASSIF_WINDOW).
Age ==
    /\ status = "open" /\ conf.bayes
    /\ aged' = {d \in Dirs : ucb[d].packets > 0} /\ aged' # aged
    /\ UNCHANGED <<conf, ucb, kad, counted, sent, streak, dropped, status>>

\* close_udp_flow.
CloseFlow ==
    /\ status = "open" /\ ucb["c2s"].packets > 0
    /\ \E v \in IF conf.bayes THEN [Dirs -> Verdicts] ELSE {NoVerdict} :
          LET f == ConnStats(Flow, v)
          IN  Becomes(f) /\ status' = IF f.exited THEN "exited" ELSE "closed"
    /\ UNCHANGED <<conf, aged, sent, streak, dropped>>

ClassNext ==
    \/ \E d \in Dirs : \E p \in conf.payloads : Packet(d, p)
    \/ Age
    \/ CloseFlow

ClassSpec == ClassInit /\ [][ClassNext]_classVars

(***************************************************************************)
(* Properties.                                                             *)
(***************************************************************************)
ClassTypeOK ==
    /\ conf \in Confs /\ kad \in KadStates
    /\ aged \subseteq Dirs /\ status \in {"open", "closed", "exited"}
    /\ \A d \in Dirs : /\ ucb[d].type \in Types /\ ucb[d].kad \in KadStates
                       /\ ucb[d].utp \in {"UNKNOWN"} \cup UtpSent \cup UtpSeen
                       /\ ucb[d].count \in 0..3 /\ ucb[d].skype \in Verdicts

\* What check_uTP and check_udp_vod write into both directions stays paired:
\* one side has seen exactly what the other sent, and the directions agree on
\* being uTP or VoD.
Paired ==
    /\ \A d \in Dirs : LET b == ucb[d]
                           o == ucb[Other(d)]
                       IN  /\ b.utp \in UtpSent => o.utp = Seen(b.utp)
                           /\ b.utp \in UtpSeen => o.utp \in UtpSent
    /\ ucb["c2s"].isUtp = ucb["s2c"].isUtp
    /\ ucb["c2s"].isVod = ucb["s2c"].isVod

\* The record of a flow is well formed, and its two directions are a pair.
Sound == ClassTypeOK /\ Paired

\* q, from the other side, is an answer to the uTP header p.
UtpAnswer(p, q) ==
    \/ p.utp \in UtpHeaders /\ q.utp \in {"fin", "reset"} /\ q.conn = p.conn
    \/ p.utp = "syn" /\ q.utp = "state" /\ q.conn = p.conn /\ q.useq = p.useq
    \/ p.utp \in {"data", "state"} /\ q.utp \in {"data", "fin", "state"}
       /\ q.conn - p.conn \in {1, -1}

\* p and q, from the two sides, have the lengths of a Kad request and reply.
KadPair(p, q) ==
    CASE kad = "RES52_K25" -> p.len = 43 /\ Multiple(q.len, 52)
      [] kad = "RES68_K25" -> p.len = 59 /\ Multiple(q.len, 68)
      [] kad = "SIZEX_22" -> p.len \in 36..70 /\ q.len = 22
      [] kad = "SIZEX_52" -> p.len \in 46..57 /\ q.len = 52
      [] kad = "SIZE_IN_46_57" -> p.len \in 46..57 /\ q.len \in 46..57

\* No flow is called uTP, VoD or obfuscated Kad without the evidence the checks
\* ask for, however the packets of the two sides interleave with other traffic.
Evidence ==
    /\ ucb["c2s"].isUtp =>
          \E d \in Dirs : \E p \in sent[d], q \in sent[Other(d)] : UtpAnswer(p, q)
    /\ kad # "UNKNOWN" =>
          \E d \in Dirs : \E p \in sent[d], q \in sent[Other(d)] : KadPair(p, q)
    /\ ucb["c2s"].isVod =>
          \E d \in Dirs : streak[d][2] >= 3 \/ \E p \in sent[d] : MpegCell(p)

Entries(d, types) == Cardinality({i \in DOMAIN counted[d] : counted[d][i] \in types})

\* What every count of a flow in L7_UDP_num stands for.  The analysers add to
\* it on their own and none withdraws what another has added (p2p.c:565), so a
\* direction may be counted several times, but only so: once for each stream
\* of RTP or RTCP its packets confirmed, the one it is now or one that was
\* given up or overridden; once for each judgement of the Bayesian classifiers,
\* the early one and the one of the close; and once more at the close, for its
\* label, when it spoke and no side is left to RTP or Skype.
CountedFor ==
    conf.located => \A d \in Dirs :
        LET streams == Entries(d, RtpTypes)
            judged == Entries(d, Verdicts)
            early == IF ucb[d].early THEN 1 ELSE 0
            late == IF conf.bayes /\ status = "closed" THEN 1 ELSE 0
            labelled == /\ status = "closed" /\ ucb[d].packets > 0
                        /\ \A e \in Dirs : ~Claimed(ucb[e])
        IN  /\ streams = dropped[d] + (IF ucb[d].type \in RtpTypes THEN 1 ELSE 0)
            /\ judged <= early + late
            /\ Len(counted[d]) = streams + judged + (IF labelled THEN 1 ELSE 0)

\* The program never ends with "No idea how I get there !" (skype.c).
NoExit == status # "exited"
==============================
