----------------------------- MODULE MCUdpClass -----------------------------
(***************************************************************************)
(* Instances of UdpClass.  A flow has the payloads of one family, chosen   *)
(* so that the analysers of a family meet each other.                      *)
(***************************************************************************)
EXTENDS UdpClass

Utp(kind, conn) == [NoPayload EXCEPT !.utp = kind, !.conn = conn]
P2p(code) == [NoPayload EXCEPT !.p2p = code]
Sized(len) == [NoPayload EXCEPT !.len = len]
Rtp(ssrc, seq) == [NoPayload EXCEPT !.v2 = TRUE, !.ssrc = ssrc, !.seq = seq, !.ts = seq]
Rtcp(ts) == [NoPayload EXCEPT !.v2 = TRUE, !.rtcp = TRUE, !.ts = ts]
Vod(a, b) == [NoPayload EXCEPT !.len = VodLen, !.sig = <<a, b>>]
Skype(kind) == [NoPayload EXCEPT !.skype = kind]

UtpFamily == {Utp("syn", 1), Utp("state", 1), Utp("data", 1), Utp("state", 2),
              Utp("fin", 1), Utp("reset", 2), P2p("P2P_BT"), NoPayload}
RtpFamily == {Rtp(1, 1), Rtp(1, 2), Rtp(2, 2), Rtcp(1), Rtcp(2), P2p("P2P_BT"),
              [Vod(128, 5) EXCEPT !.v2 = TRUE, !.ssrc = 1, !.seq = 3]}
Blocks == [Skype("SIG") EXCEPT !.block = 7]
SkypeFamilies == {{Skype("E2E"), Skype("SIG"), Blocks, NoPayload},
                  {Skype("E2E"), Skype("SIG"), Rtp(1, 1), Rtp(1, 2)},
                  {Blocks, Rtp(1, 1), Rtp(1, 2)}}
KadFamily == {Sized(43), Sized(59), Sized(52), Sized(77), Sized(68), Sized(22),
              Sized(50), P2p("P2P_PPLIVE"), NoPayload}
DnsFamily == {Sized(43), Sized(52), Sized(22), P2p("P2P_PPLIVE"), NoPayload}
VodFamily == {Vod(0, 0), Vod(3, 4), Vod(3, 5), Vod(Sync, Sync), Vod(Sync, 4), NoPayload}

Conf(ports, payloads) == [ports |-> ports, bayes |-> FALSE, located |-> TRUE,
                          snap |-> TRUE, payloads |-> payloads]

McConfs ==
    {Conf("even", UtpFamily), Conf("even", RtpFamily), Conf("odd", RtpFamily),
     Conf("ntp", KadFamily), Conf("dns", DnsFamily), Conf("even", VodFamily),
     [Conf("even", VodFamily) EXCEPT !.snap = FALSE, !.located = FALSE]}
    \cup {[Conf("even", fam) EXCEPT !.bayes = TRUE] : fam \in SkypeFamilies}
==============================
