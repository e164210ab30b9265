----------------------------- MODULE MCTcpClass -----------------------------
(***************************************************************************)
(* Instances of TcpClass.  A connection has the segments of one family,    *)
(* chosen so that the analysers of a family meet each other; its hosts are *)
(* placed by a command line.  The command lines that differ in what they   *)
(* say of hosts are all given to a connection without payload.             *)
(***************************************************************************)
EXTENDS TcpClass

Says(d, cmd) == [NoSegment EXCEPT !.dir = d, !.cmd = cmd]
C(cmd) == Says("c2s", cmd)
S(cmd) == Says("s2c", cmd)
Sized(d, off, len) == [NoSegment EXCEPT !.dir = d, !.off = off, !.len = len, !.psh = TRUE]
Web(cmd, path) == [C(cmd) EXCEPT !.url = path]
YouTube(path, par) == [Web("GET", path) EXCEPT !.par = par]
Watched == [NoParameters EXCEPT !.id = "v1", !.itag = "34", !.begin = 7, !.st = "nx",
                                !.counter = 1, !.key = "yt1", !.app = "youtube_mobile"]

WebFamily == {Web("GET", "/"), Web("POST", "/ajax/chat/"), Web("GET", "/maps{listed}"),
              [S("HTTP") EXCEPT !.ctype = "3GPP"], [S("FLV") EXCEPT !.content = "MP4"]}
VideoFamily == {Web("GET", "/"), YouTube("/generate_204?", NoParameters),
                YouTube("/videoplayback?", Watched), YouTube("/watch?v=", NoParameters),
                Web("POST", "/profile_ajax?action_ajax="), S("HTTP")}
Left == [Blank EXCEPT !.id = "v2", !.itag = "18", !.seek = 5]
StreamFamily == {C("GET"), C("DESCRIBE"), S("HTTP"), S("RTSP"), S("RTP"),
                 [S("other") EXCEPT !.rtsp = TRUE]}
RadioFamily == {C("GET"), C("DESCRIBE"), S("HTTP"), S("RTSP"), S("ICY")}
MailFamily == {S("SMTP_220"), C("HELO"), S("POP_OK"), C("USER"), C("other")}
ImapFamily == {S("IMAP_OK"), C("TAG"), S("TAG"), S("STAR"), C("SSH")}
SshFamily == {S("SSH"), C("SSH"), S("IMAP_OK"), C("HELO"), C("TAG")}
SslFamily == {C("SSL_CLIENT"), S("SSL_SERVER"), [S("SSL_SERVER") EXCEPT !.name = TRUE],
              C("other"), C("HEAD"), S("HTTP")}
P2pFamily == {[C("GET") EXCEPT !.p2p = <<"BIT", 1>>], S("HTTP"),
              [S("other") EXCEPT !.p2p = <<"BIT", 2>>],
              [C("other") EXCEPT !.p2p = <<"EDK", 1>>], C("other")}
Ed2kFamily == {Sized("c2s", 0, 11), Sized("c2s", 11, 83), Sized("s2c", 0, 55),
               Sized("s2c", 55, 22), Sized("c2s", 94, 18)}
MaskedFamily == {Sized("c2s", 0, 11), Sized("s2c", 0, 55), Sized("s2c", 55, 22),
                 Sized("c2s", 11, 18), S("SSL_SERVER"), C("SSL_CLIENT")}
MseFamily == {Sized("c2s", 0, 90), Sized("c2s", 90, 100), Sized("s2c", 0, 200),
              [Sized("s2c", 200, 6) EXCEPT !.p2p = <<"BIT", 1>>], Sized("s2c", 206, 46)}
RtmpFamily == {[Sized("c2s", 0, 1537) EXCEPT !.rtmp = TRUE],
               [Sized("c2s", 1537, 1536) EXCEPT !.rtmp = TRUE],
               [Sized("s2c", 0, 1000) EXCEPT !.rtmp = TRUE], Sized("s2c", 1000, 2073),
               [Sized("s2c", 0, 1537) EXCEPT !.rtmp = TRUE], Sized("s2c", 1537, 1536)}
MsnFamily == {C("VER"), S("VER"), C("MSG"), S("USR"), C("UUM"), S("UBM")}
MsnChatFamily == {C("ANS"), S("IRO"), C("IRO"), S("ANS"), C("USR"), S("MSG")}
TunnelFamily == {C("POST"), S("HTTP"), S("VER"), C("USR"), S("USR"), C("MSG")}
YmsgFamily == {C("YMSG"), C("AUTH_RESP"), C("MESSAGE"), S("MESSAGE"), S("P2Pcheck"), C("P2Pcheck")}
JabberFamily == {C("XMPP_SMELL"), C("PRESENCE"), C("MESSAGE"), S("MESSAGE"), S("NUL")}

Partial == [complete |-> FALSE, sack |-> {}, ws |-> {}, ts |-> {}, mss |-> [d \in Dirs |-> 0],
            rtt |-> {}, finite |-> {}, large |-> {}, stream |-> FALSE]
Whole1 == [Partial EXCEPT !.complete = TRUE, !.sack = Dirs, !.ws = {"c2s"},
                          !.mss = [c2s |-> 1460, s2c |-> 1380], !.rtt = {"c2s"}]
Whole2 == [Whole1 EXCEPT !.ts = {"s2c"}, !.mss["c2s"] = 0, !.rtt = Dirs, !.finite = Dirs,
                         !.large = {"s2c"}]
\* Addresses of three bits, first to last: 4 is 1.., 5 is 1.1.
Four == {2}
Five == {2, 0}
Lists(opt, file) == [opt |-> opt, file |-> file]
NetFiles == {<<>>, <<Prefix(Five, 1)>>, <<Prefix(Five, 3)>>, <<Prefix({}, 2)>>, <<Prefix(Four, 0)>>,
             <<Masked(Five, {2, 1})>>, <<Masked(Five, {0})>>, <<Masked({}, {})>>, <<Garbled>>,
             <<Prefix({1}, 3), Masked(Five, AddressBits)>>,
             <<Prefix({1}, 3), Prefix({1}, 2), Prefix({1}, 3)>>}
Nets == {Lists("N", file) : file \in NetFiles}
Cards == {Lists("M", <<>>), Lists("M", <<"mac1">>), Lists("M", <<"mac2", "mac3">>),
          Lists("M", <<"mac1", "mac2", "mac3">>), Lists("2", <<>>)}
CommandLines ==
    {<<>>} \cup {<<a>> : a \in Nets \cup Cards \cup {Lists("C", file) : file \in NetFiles}}
    \cup {<<a, b>> : a \in Nets, b \in Cards \cup {Lists("N", <<Prefix({1}, 2)>>)}}
    \cup {<<b, a>> : a \in Nets, b \in Cards}
Frame == [ip |-> [c2s |-> Four, s2c |-> {1}], mac |-> [c2s |-> "mac1", s2c |-> "mac2"],
          coming_in |-> TRUE, direction |-> 0]
McFrames == {Frame} \cup {[Frame EXCEPT !.ip["c2s"] = Five], [Frame EXCEPT !.ip["s2c"] = {2, 1}],
                        [Frame EXCEPT !.coming_in = FALSE]}
          \cup {[Frame EXCEPT !.direction = w] : w \in 1..4}

Run(c, args, frame) == [c EXCEPT !.args = args, !.frame = frame,
                                 !.place = PlaceOf(Configured(args), frame)]
Inside1 == Lists("N", <<Prefix(Five, 1)>>)       \* the client
Server == <<Prefix({1}, 2)>>

Conf(segments) ==
    Run([before |-> 0, bare |-> {0}, bayes |-> FALSE, high |-> {FALSE},
         segments |-> segments, others |-> {}, ends |-> {Whole1}, args |-> <<>>, frame |-> Frame, place |-> Place({}, {})],
        <<Inside1, Lists("C", Server)>>, Frame)

McPaths == {"/", "/ajax/chat/", "/maps{listed}", "/generate_204?", "/videoplayback?", "/watch?v=",
            "/profile_ajax?action_ajax="}
McConfs ==
    {Conf(fam) : fam \in {StreamFamily, RadioFamily, ImapFamily, SshFamily, Ed2kFamily, MaskedFamily,
                          RtmpFamily, MsnFamily, MsnChatFamily, TunnelFamily, YmsgFamily}}
    \cup {[Conf(fam) EXCEPT !.ends = {Partial, Whole1}] : fam \in {MailFamily, JabberFamily}}
    \cup {[Conf(P2pFamily) EXCEPT !.ends = {Partial, Whole1}, !.bare = {0, 1}]}
    \cup {[Run(Conf(WebFamily), <<Lists("N", Server)>>, Frame) EXCEPT
                !.bayes = TRUE, !.before = 1, !.ends = {Partial, Whole1}],
          [Run(Conf(VideoFamily), <<>>, Frame) EXCEPT !.others = {Left}, !.ends = {Whole2}],
          Run(Conf({S("other"), C("other")}), <<Lists("N", <<>>), Lists("C", <<Prefix(Four, 1)>>)>>,
              Frame),
          [Conf(SslFamily) EXCEPT !.bare = {0, 1}],
          [Conf(MseFamily) EXCEPT !.high = BOOLEAN]}
    \cup {Run([Conf({}) EXCEPT !.ends = {Partial}], args, f) :
              args \in {l \in CommandLines : ~Configured(l).exit}, f \in McFrames}
==============================
