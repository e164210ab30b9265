------------------------------ MODULE TcpClass ------------------------------
(***************************************************************************)
(* What a TCP connection is.  Every segment is shown to the analysers in   *)
(* the order plugin.c calls them: peer to peer, layer 7 and streaming.     *)
(* Layer 7 is a state machine over the first bytes of the segments (an     *)
(* opening of one side, an answer of the other) beside three classifiers   *)
(* of sizes (obfuscated eDonkey, RTMP, encrypted BitTorrent).  con_type    *)
(* collects what they found, map_flow_type picks the label with the        *)
(* highest priority, and the close counts it.  One connection, its chat    *)
(* session (TcpChat) and all the analysers.                                *)
(***************************************************************************)
EXTENDS TcpChat, Networks, Sequences, SequencesExt, Web

CONSTANTS
    Confs,        \* [before, bare, bayes, high, segments, others, place, args, frame, ends]:
                  \* packets seen before the first data and between segments,
                  \* options, the data segments there are, what requests of
                  \* other connections leave behind, where the hosts are, the
                  \* command line and the packet that put them there (Networks),
                  \* and what the connection was like (Traffic)
    Paths,        \* the paths of their web requests
    MaxPackets,   \* bound: data packets of the connection
    MaxSsl, MaxCommand, MaxResponse, MaxUnknown, MaxCon,
                  \* MAX_SSL_HANDSHAKE 10, MAX_HTTP (and RTSP) _COMMAND 20,
                  \* _RESPONSE 30, MAX_UNKNOWN 40, MAX_PACKETS_CON 50
    MaxStreaming  \* MAX_HTTP_STREAMING_DEPTH 5

(***************************************************************************)
(* A segment is its place in the stream of its direction and what the      *)
(* analysers see in it: the command its first bytes spell, the path and    *)
(* the parameters of a web request, whether the text "RTSP" is in it, a    *)
(* name in a certificate, the video kinds of its content type and of its   *)
(* body, and the signature of a peer-to-peer protocol, <<family, command>>.*)
(***************************************************************************)
NoP2p == <<"no", 0>>
Segment == [dir : Dirs, cmd : STRING, off : Nat, len : Nat, psh : BOOLEAN, url : Paths,
            par : Parameters, rtsp : BOOLEAN, name : BOOLEAN, ctype : STRING,
            content : STRING, p2p : STRING \X Nat, rtmp : BOOLEAN]
NoSegment == [dir |-> "c2s", cmd |-> "other", off |-> 0, len |-> 20, psh |-> FALSE,
              url |-> "/", par |-> NoParameters, rtsp |-> FALSE, name |-> FALSE, ctype |-> "none",
              content |-> "none", p2p |-> NoP2p, rtmp |-> FALSE]

Weak == {"MSE", "OBF"}
Protocols == {"HTTP", "RTSP", "RTP", "ICY", "MSN", "YMSG", "XMPP", "SMTP", "POP3",
              "IMAP", "SSL", "SSH"}
ConTypes == Weak \cup {"RTMP", "P2P", "SKYPE"} \cup Protocols

ChatStates == {"YMSGP", "XMPP", "MSN_VER_S2C", "MSN_USR_S2C", "MSN_IRO_COMMAND"}
MsnWaits == {"MSN_VER_C2S", "MSN_USR_C2S", "MSN_ANS_COMMAND"}
States == ChatStates \cup MsnWaits \cup
          {"UNKNOWN", "RTSP_COMMAND", "RTSP_RESPONSE", "HTTP_COMMAND", "HTTP_RESPONSE",
           "SMTP_OPENING", "POP3_OPENING", "IMAP_OPENING", "IMAP_COMMAND",
           "SSL_HANDSHAKE", "SSL_SERVER", "SSH_SERVER", "IGNORE"}

WebRequests == {"GET", "POST"}
\* The class of every request there is.
ClassOf == [cmd \in WebRequests |-> [path \in Paths |-> Classify(cmd, path)]]
Class(s) == ClassOf[s.cmd][s.url]

ASSUME TcpClassAssumption ==
    /\ \A c \in Confs : /\ {c.before} \cup c.bare \subseteq Nat
                        /\ c.bayes \in BOOLEAN /\ c.high \subseteq BOOLEAN
                        /\ c.segments \subseteq Segment /\ c.others \subseteq YtVars
    /\ {MaxPackets, MaxSsl, MaxCommand, MaxResponse, MaxUnknown, MaxCon, MaxStreaming}
         \subseteq Nat
    /\ \A cmd \in WebRequests, path \in Paths : ClassOf[cmd][path] \in WebClasses \ {"YOUTUBE_VIDEO204"}

\* The hosts are where the options put them, and the program went on; no family
\* of peer to peer protocols has the name of another label.
ASSUME PlacesAssumption ==
    \A c \in Confs :
        /\ c.args \in Seq(Option) /\ c.frame \in Frames
        /\ ~Configured(c.args).exit /\ c.place = PlaceOf(Configured(c.args), c.frame)
        /\ \A s \in c.segments : s.p2p[1] \notin {"HTTP", "SKYPE"}

VARIABLES
    conf,     \* the connection and the options of the run
    pair,     \* the tcp_pair
    sent,     \* ghost: the segments seen, in their order
    rates,    \* bytes by table, row and label
    counted,  \* what the close added to the histograms
    open

classVars == <<conf, pair, sent, rates, counted, open>>

\* NewTTP_2 and tp_alloc: everything zero.
NewPair(before) ==
    [state |-> "UNKNOWN", type |-> {}, packets |-> before, web |-> "GET",
     chat |-> NoChat, high |-> FALSE, nibbles |-> 0, sizes |-> {},
     rtmpSeen |-> {}, rtmpHand |-> {}, seq |-> [d \in Dirs |-> 0],
     msgs |-> [d \in Dirs |-> <<>>], last |-> [d \in Dirs |-> 0],
     p2p |-> NoP2p, p2pOpen |-> TRUE, own |-> Blank, yt |-> Blank,
     video |-> [state |-> "UNKNOWN", packets |-> 0, ctype |-> "none", content |-> "none"]]

Limit(f, max) == IF f.packets > max THEN [f EXCEPT !.state = "IGNORE"] ELSE f

\* A protocol recognised takes the place of a guess from sizes or entropy.
Recognised(f, proto, next) ==
    [f EXCEPT !.type = (@ \ Weak) \cup {proto}, !.state = next]

(***************************************************************************)
(* Messages (tcp_flow_stat): what a direction sent between two pushes.     *)
(* Only the sizes of the first two are looked at.                          *)
(***************************************************************************)
\* rexmit: a segment seen before leaves seq where it was; seq follows any
\* other, also one that comes late.  The bare packets that came since the last
\* segment were counted too.
Arrives(f, s, again, bare) ==
    [f EXCEPT !.packets = @ + bare + 1,
              !.seq[s.dir] = IF again THEN @ ELSE s.off + s.len]

Message(f, s) ==
    LET d == s.dir IN
    IF s.psh /\ f.last[d] < f.seq[d]
    THEN [f EXCEPT !.msgs[d] = Append(@, f.seq[d] - f.last[d]),
                   !.last[d] = f.seq[d]]
    ELSE f

Size1(f, d) == IF Len(f.msgs[d]) > 0 THEN f.msgs[d][1] ELSE 0
Size2(f, d) == Size1(f, d) + IF Len(f.msgs[d]) > 1 THEN f.msgs[d][2] ELSE 0
Spoken(f, n) == \A d \in Dirs : Len(f.msgs[d]) > n

(***************************************************************************)
(* The three classifiers that look at sizes.                               *)
(***************************************************************************)
\* compute_nibbles: the entropy of the first four segments, high or not.
Nibbles(f, high) ==
    IF f.nibbles < 4 THEN [f EXCEPT !.nibbles = @ + 1, !.high = high] ELSE f

\* ed2k_obfuscate_check, of a segment with ACK and PSH.  sizes holds the
\* state_ flags: 11, 22 and 6, and 1183 for 11 -> 83.
Ed2k(f, s) ==
    LET n == s.len
        mark(k) == [f EXCEPT !.sizes = @ \cup {k}]
        obf == [f EXCEPT !.type = @ \cup {"OBF"}]
    IN  IF ~s.psh THEN f
        ELSE CASE n \in {11, 22, 6} -> mark(n)
               [] n = 83 /\ 11 \in f.sizes -> mark(1183)
               [] n = 55 /\ f.sizes \cap {1183, 11} # {} -> obf
               [] n = 18 /\ 22 \in f.sizes -> obf
               [] n = 46 /\ 6 \in f.sizes -> obf
               [] OTHER -> f

\* Mutant: any segment of the direction is taken for its first.
Rtmp_Bug(f, s) ==
    LET d == s.dir
        first == d \notin f.rtmpSeen
        hand == IF first /\ s.rtmp THEN f.rtmpHand \cup {d} ELSE f.rtmpHand
    IN  IF f.rtmpSeen = Dirs THEN f
        ELSE [f EXCEPT !.rtmpSeen = IF first THEN @ \cup {d} ELSE @,
                       !.rtmpHand = hand,
                       !.type = IF hand = Dirs THEN @ \cup {"RTMP"} ELSE @]

\* rtmp_handshake_check: the first byte of the first segment of both sides.
Rtmp(f, s) ==
    LET d == s.dir
        first == d \notin f.rtmpSeen /\ f.seq[d] = s.len
        hand == IF first /\ s.rtmp THEN f.rtmpHand \cup {d} ELSE f.rtmpHand
    IN  IF f.rtmpSeen = Dirs THEN f
        ELSE [f EXCEPT !.rtmpSeen = IF first THEN @ \cup {d} ELSE @,
                       !.rtmpHand = hand,
                       !.type = IF hand = Dirs THEN @ \cup {"RTMP"} ELSE @]

\* mse_protocol_check: the guess with the least evidence is made only when
\* nothing else is known.
Mse(f) ==
    LET fits(d) == Size1(f, d) \in 96..608 \/ Size2(f, d) \in 96..608
    IN  IF Spoken(f, 0) /\ (\A d \in Dirs : fits(d)) /\ f.high /\ f.type = {}
        THEN [f EXCEPT !.type = {"MSE"}] ELSE f

(***************************************************************************)
(* The state machine (tcpL7_flow_stat): one operator per state.            *)
(***************************************************************************)
MsnCommands == {"VER", "USR", "ANS", "IRO"}
MsnAsked == [VER |-> "MSN_VER_C2S", USR |-> "MSN_USR_C2S",
             ANS |-> "MSN_ANS_COMMAND", IRO |-> "MSN_IRO_COMMAND"]
MsnAnswered == [MsnAsked EXCEPT !.VER = "MSN_VER_S2C", !.USR = "MSN_USR_S2C"]

\* msn_s2c_state_update
MsnServer(f, cmd, tunnel) ==
    LET g == IF tunnel THEN [f EXCEPT !.chat.ft = "MSN_TUNNEL"] ELSE f
    IN  Recognised([g EXCEPT !.chat = Note(@, "s2c", {cmd})], "MSN", MsnAnswered[cmd])

(***************************************************************************)
(* Requests.  yt stands for the yt_ variables, own for the copy of them    *)
(* that a connection keeps (http_ytid and so on).                          *)
(***************************************************************************)
Look(f, s, first) == [f EXCEPT !.yt = Parse(Cleared(@, first), Class(s), s.par)]
Keep(f, class) == IF class \in YouTubeVideo \cup YouTubeSite
                  THEN [f EXCEPT !.web = class, !.own = f.yt] ELSE [f EXCEPT !.web = class]

\* What a first request with POST finds is not copied.
FirstRequest(f, s) ==
    LET g == [Look(f, s, TRUE) EXCEPT !.web = Class(s), !.state = "HTTP_COMMAND"]
    IN  IF s.cmd = "GET" THEN Keep(g, Class(s)) ELSE g

\* HEAD is not among them: its constant spells "HE@D", in both byte orders.
ClientOpens == [GET |-> "HTTP_COMMAND", POST |-> "HTTP_COMMAND",
                DESCRIBE |-> "RTSP_COMMAND"]
ServerOpens == [SMTP_220 |-> "SMTP_OPENING", POP_OK |-> "POP3_OPENING",
                IMAP_OK |-> "IMAP_OPENING", SSH |-> "SSH_SERVER"]
Openings == DOMAIN ClientOpens \cup DOMAIN ServerOpens \cup MsnCommands
            \cup {"YMSG", "XMPP_SMELL"}

\* UNKNOWN_TYPE: an opening from the wrong side changes nothing.
Unknown(f, s) ==
    LET c == s.cmd IN
    CASE s.dir = "c2s" /\ c \in DOMAIN ClientOpens ->
            IF c \in WebRequests THEN FirstRequest(f, s)
                                 ELSE [f EXCEPT !.state = ClientOpens[c]]
      [] s.dir = "s2c" /\ c \in DOMAIN ServerOpens -> [f EXCEPT !.state = ServerOpens[c]]
      [] c = "YMSG" -> Recognised(f, "YMSG", "YMSGP")
      [] c = "XMPP_SMELL" -> Recognised(f, "XMPP", "XMPP")
      [] s.dir = "c2s" /\ c \in MsnCommands ->
            [f EXCEPT !.state = MsnAsked[c], !.chat = Note(@, "c2s", {c})]
      [] s.dir = "s2c" /\ c \in MsnCommands -> MsnServer(f, c, FALSE)
      [] s.dir = "c2s" /\ c = "SSL_CLIENT" -> [f EXCEPT !.state = "SSL_HANDSHAKE"]
      [] c \notin Openings /\ ~(s.dir = "c2s" /\ c = "SSL_CLIENT") -> Limit(f, MaxUnknown)
      [] OTHER -> f

\* One side opened, the other must answer: <<who, with what, protocol>>.
Waits == [SMTP_OPENING |-> <<"c2s", {"HELO"}, "SMTP">>,
          POP3_OPENING |-> <<"c2s", {"USER"}, "POP3">>,
          IMAP_COMMAND |-> <<"s2c", {"TAG", "STAR"}, "IMAP">>,
          SSH_SERVER |-> <<"c2s", {"SSH"}, "SSH">>]

Wait(f, s) ==
    LET w == Waits[f.state] IN
    CASE s.dir # w[1] -> f
      [] s.dir = w[1] /\ s.cmd \in w[2] -> Recognised(f, w[3], "IGNORE")
      [] OTHER -> Limit(f, MaxCommand)

ImapOpening(f, s) ==
    CASE s.dir = "s2c" -> f
      [] s.dir = "c2s" /\ s.cmd = "TAG" -> [f EXCEPT !.state = "IMAP_COMMAND"]
      [] OTHER -> Limit(f, MaxCommand)

HttpCommand(f, s) ==
    IF s.dir = "c2s" THEN f
    ELSE Limit(CASE s.cmd = "HTTP" -> Recognised(f, "HTTP", "HTTP_RESPONSE")
                 [] s.cmd = "ICY" -> Recognised(f, "ICY", "IGNORE")
                 [] s.cmd \in MsnCommands -> MsnServer(f, s.cmd, TRUE)
                 [] OTHER -> f, MaxCommand)

Unspecific == WebRequests \cup {"YOUTUBE_204"}

\* Mutant: a later request always gives the connection its class.
WebRequest_Bug(f, s) == Keep(Look(f, s, FALSE), Class(s))

\* A later request of a connection whose class is not specific yet.
WebRequest(f, s) ==
    LET g == Look(f, s, FALSE) IN
    CASE f.web \notin Unspecific -> f
      [] f.web = "YOUTUBE_204" /\ Class(s) = "YOUTUBE_VIDEO" -> Keep(g, "YOUTUBE_VIDEO204")
      [] OTHER -> IF Class(s) \in WebRequests THEN g ELSE Keep(g, Class(s))

\* Only the body of the answer to a plain GET makes it video content.
HttpBody(f, s) ==
    CASE s.cmd \in MsnCommands -> MsnServer(f, s.cmd, TRUE)
      [] s.cmd = "FLV" -> IF f.web = "GET" THEN [f EXCEPT !.web = "VIDEO_CONTENT"] ELSE f
      [] s.cmd \notin MsnCommands \cup {"FLV"} ->
            IF s.rtsp THEN Recognised(f, "RTSP", "RTSP_RESPONSE") ELSE f

HttpResponse(f, s) ==
    Limit(CASE s.dir = "s2c" -> HttpBody(f, s)
            [] s.dir = "c2s" /\ s.cmd \in WebRequests -> WebRequest(f, s)
            [] OTHER -> f, MaxResponse)

RtspCommand(f, s) ==
    IF s.dir = "c2s" THEN f
    ELSE Limit(IF s.cmd = "RTSP" THEN Recognised(f, "RTSP", "RTSP_RESPONSE") ELSE f, MaxCommand)

RtspResponse(f, s) ==
    Limit(IF s.dir = "s2c" /\ s.cmd = "RTP" THEN Recognised(f, "RTP", "IGNORE") ELSE f,
          MaxResponse)

MsnWait(f, s) ==
    IF s.dir = "s2c" /\ s.cmd \in MsnCommands THEN MsnServer(f, s.cmd, FALSE) ELSE f

\* A handshake that is not answered in time is forgotten.
SslHandshake(f, s) ==
    IF s.dir = "s2c" /\ s.cmd = "SSL_SERVER"
    THEN Recognised(f, "SSL", IF s.name THEN "IGNORE" ELSE "SSL_SERVER")
    ELSE IF f.packets > MaxSsl THEN [f EXCEPT !.state = "UNKNOWN"] ELSE f

SslServer(f, s) == IF s.dir = "s2c" THEN [f EXCEPT !.state = "IGNORE"] ELSE f

\* The chat states return: the limit of all states does not apply to them.
ChatState(f, s) ==
    LET d == s.dir IN
    [f EXCEPT !.chat = CASE f.state = "YMSGP" -> ClassifyYmsg(FindYmsg(@, d, s.cmd), d)
                         [] f.state = "XMPP" -> ClassifyJabber(FindJabber(@, d, s.cmd), d)
                         [] OTHER -> ClassifyMsn(FindMsn(@, d, s.cmd), d)]

Step(f, s) ==
    CASE f.state = "UNKNOWN" -> Unknown(f, s)
      [] f.state \in DOMAIN Waits -> Wait(f, s)
      [] f.state = "IMAP_OPENING" -> ImapOpening(f, s)
      [] f.state = "HTTP_COMMAND" -> HttpCommand(f, s)
      [] f.state = "HTTP_RESPONSE" -> HttpResponse(f, s)
      [] f.state = "RTSP_COMMAND" -> RtspCommand(f, s)
      [] f.state = "RTSP_RESPONSE" -> RtspResponse(f, s)
      [] f.state \in MsnWaits -> MsnWait(f, s)
      [] f.state = "SSL_HANDSHAKE" -> SslHandshake(f, s)
      [] f.state = "SSL_SERVER" -> SslServer(f, s)

TcpL7(f, s, high) ==
    LET n == Nibbles(f, high)
        g == Mse(Rtmp(Ed2k(n, s), s))
    IN  CASE f.state = "IGNORE" -> n
          [] f.state \in ChatStates -> ChatState(g, s)
          [] OTHER -> Limit(Step(g, s), MaxCon)

(***************************************************************************)
(* Peer to peer (p2p_flow_stat) and streaming (videoL7_flow_stat), each    *)
(* with its own state.                                                     *)
(***************************************************************************)
Family(code) == code[1]

\* The first family stays; of one family the last command does.
P2pMatch(f, code) ==
    IF code = NoP2p THEN f
    ELSE [f EXCEPT !.type = (@ \ Weak) \cup {"P2P"},
                   !.p2p = IF @ # NoP2p /\ Family(@) # Family(code) THEN @ ELSE code]

\* ignore_dpi is not looked at: it is set as a connection whose server sent no
\* SYN is closed, before any analysis (tcp.c:821-868).
P2pFlowStat(f, s) ==
    LET g == P2pMatch(f, s.p2p)
    IN  IF ~f.p2pOpen THEN f
        ELSE [g EXCEPT !.p2pOpen = Family(g.p2p) = "EDK" \/ g.packets <= MaxCon]

VideoAnswer(v, s) ==
    LET ctype == IF v.ctype = "none" THEN s.ctype ELSE v.ctype
        content == IF s.content = "none" THEN v.content ELSE s.content
        done == (ctype # "none" /\ content # "none") \/ v.packets + 1 >= MaxStreaming
    IN  [state |-> IF done THEN "IGNORE" ELSE v.state, packets |-> v.packets + 1,
         ctype |-> ctype, content |-> content]

VideoStep(f, s) ==
    LET v == f.video IN
    CASE v.state = "UNKNOWN" /\ s.cmd \in WebRequests ->
            IF s.dir = "c2s" THEN [v EXCEPT !.state = "HTTP_COMMAND"] ELSE v
      [] v.state = "UNKNOWN" /\ s.cmd \notin WebRequests ->
            IF f.packets > MaxUnknown THEN [v EXCEPT !.state = "IGNORE"] ELSE v
      [] v.state = "HTTP_COMMAND" /\ s.dir = "s2c" -> VideoAnswer(v, s)
      [] OTHER -> v

VideoFlowStat(f, s) ==
    IF f.video.state = "IGNORE" THEN f
    ELSE [f EXCEPT !.video = IF f.packets > MaxCon
                             THEN [VideoStep(f, s) EXCEPT !.state = "IGNORE"]
                             ELSE VideoStep(f, s)]

(***************************************************************************)
(* The label (map_flow_type).                                              *)
(***************************************************************************)
Priority == <<"MSE", "OBF", "RTMP", "HTTP", "RTSP", "RTP", "ICY", "MSN", "YMSG", "XMPP",
              "SMTP", "POP3", "IMAP", "SSL", "SSH", "P2P", "SKYPE">>

RtmpSizes(f) ==
    LET one(d, n) == Size1(f, d) = n
        two(d, n) == Size2(f, d) = n
    IN  \/ one("c2s", 1537) /\ \E n \in {3073, 1537} : one("s2c", n)
        \/ two("c2s", 1537) /\ \E n \in {3073, 1537} : one("s2c", n) \/ two("s2c", n)

\* RTMP_PROTOCOL is only a candidate until the sizes of the messages agree.
Labels(f) == f.type \ IF Spoken(f, 0) /\ RtmpSizes(f) THEN {} ELSE {"RTMP"}

Label(f) ==
    LET labels == Labels(f)
    IN  IF labels = {} THEN "UNKNOWN"
        ELSE Priority[CHOOSE i \in DOMAIN Priority :
                         /\ Priority[i] \in labels
                         /\ \A j \in i + 1..Len(Priority) : Priority[j] \notin labels]

\* What the label of a P2P connection is called.
LabelName(f) == IF Label(f) = "P2P" THEN Family(f.p2p) ELSE Label(f)

\* make_tcpL7_rate_stats asks for the label after every packet, and asking
\* gives up RTMP for good when two messages of both sides have other sizes.
Asked(f) ==
    IF Spoken(f, 1) /\ ~RtmpSizes(f) THEN [f EXCEPT !.type = @ \ {"RTMP"}] ELSE f

IsVideo(f) == "HTTP" \in f.type /\ (f.video.ctype # "none" \/ f.video.content # "none")

\* VIDEO_MAP: what the body is comes before what the header says of it, and
\* three kinds have one class.
VideoClass(f) ==
    LET kind == IF f.video.content = "none" THEN f.video.ctype ELSE f.video.content
    IN  IF kind \in {"3GPP", "OGG"} THEN "QUICKTIME" ELSE kind

(***************************************************************************)
(* The steps.                                                              *)
(***************************************************************************)
\* make_tcpL7_rate_stats and make_videoL7_rate_stats, after every packet; the
\* bytes of Skype are left to its own analyser.
RateKeys(f, d) ==
    LET rows == RemoteRows(conf.place, d)
        http == Label(f) = "HTTP"
    IN  IF Label(f) = "SKYPE" THEN {}
        ELSE {"L7"} \X rows \X {LabelName(f)}
             \cup (IF http THEN ({"HTTP"} \X rows \X {YtMap(f.web)})
                      \cup ({"WEB"} \X Whole(rows) \X {MapHttpToWeb(f.web, IsVideo(f))}) ELSE {})
             \cup (IF IsVideo(f) THEN {"VIDEO"} \X rows \X {VideoClass(f)} ELSE {})

\* make_tcpL7_conn_stats and make_videoL7_conn_stats: the same tables count
\* connections.
CountKeys(f) ==
    LET rows == RemoteRows(conf.place, "c2s") IN
    {"L7"} \X rows \X {LabelName(f)}
    \cup (IF Label(f) = "HTTP"
          THEN ({"HTTP"} \X rows \X {YtMap(f.web)})
               \cup ({"WEB"} \X Whole(rows) \X {MapHttpToWeb(f.web, IsVideo(f))}) ELSE {})
    \cup (IF IsVideo(f) THEN {"VIDEO"} \X rows \X {VideoClass(f)} ELSE {})

ClassInit ==
    /\ conf \in Confs
    /\ pair = NewPair(conf.before)
    /\ sent = <<>>
    /\ rates = <<>>
    /\ counted = {}
    /\ open = TRUE

Analysed(f, s, high) == VideoFlowStat(TcpL7(P2pFlowStat(f, s), s, high), s)

Packet ==
    \E s \in conf.segments, high \in conf.high, bare \in conf.bare :
        /\ open /\ Len(sent) < MaxPackets
        /\ pair' = Asked(Analysed(Message(Arrives(pair, s, s \in ToSet(sent), bare), s), s, high))
        /\ rates' = Add(rates, RateKeys(pair', s.dir) \cup HeaderKeys(conf.place, s.dir, "TCP"),
                        s.len)
        /\ sent' = Append(sent, s)
        /\ UNCHANGED <<conf, counted, open>>

\* A request of another connection.
OtherRequest ==
    \E y \in conf.others :
        /\ open /\ pair.yt # y
        /\ pair' = [pair EXCEPT !.yt = y]
        /\ UNCHANGED <<conf, sent, rates, counted, open>>

\* skype_conn_stats_TCP: the ways judged to be Skype, of a connection with
\* enough packets, have their bytes counted, once more.
Skype(f, v) == IF v # {} THEN Recognised(f, "SKYPE", f.state) ELSE f
DataBytes(d) ==
    SumFunction([i \in DOMAIN sent |-> IF sent[i].dir = d THEN sent[i].len ELSE 0])
SkypeRates(r, d) ==
    Add(r, {"L7"} \X Whole(RemoteRows(conf.place, d)) \X {"SKYPE"}, DataBytes(d))
SkypeAdded(v) ==
    LET first == IF "c2s" \in v THEN SkypeRates(rates, "c2s") ELSE rates
    IN  IF "s2c" \in v THEN SkypeRates(first, "s2c") ELSE first

\* make_conn_stats.  Only connections that were complete are counted by label.
Close(e, v) ==
    /\ open
    /\ open' = FALSE
    /\ pair' = LET f == [pair EXCEPT !.chat = Leave(@)]
               IN  IF e.complete THEN Asked(Skype(f, v)) ELSE f
    /\ rates' = IF e.complete THEN SkypeAdded(v) ELSE rates
    /\ counted' = LET f == [e EXCEPT !.stream = pair'.type \cap {"RTP", "ICY"} # {}]
                  IN  ConnSamples(conf.place, f)
                      \cup IF e.complete THEN CountKeys(pair') ELSE {}
    /\ UNCHANGED <<conf, sent>>

ClassNext ==
    \/ Packet
    \/ OtherRequest
    \/ \E e \in conf.ends : \E v \in SUBSET (IF conf.bayes THEN Dirs ELSE {}) : Close(e, v)

ClassSpec == ClassInit /\ [][ClassNext]_classVars

(***************************************************************************)
(* Properties.                                                             *)
(***************************************************************************)
ClassTypeOK ==
    /\ pair.state \in States /\ pair.type \subseteq ConTypes
    /\ pair.web \in WebClasses
    /\ pair.chat.ft \in ChatTypes
    /\ \A d \in Dirs : pair.chat.seen[d] \subseteq Noted
    /\ Len(sent) <= MaxPackets /\ open \in BOOLEAN

Total(table, row) == SumFunctionOnSet(rates, {k \in DOMAIN rates : k[1] = table /\ k[2] = row})

\* Whatever a connection is called on the way, its bytes are counted once:
\* the labels share out what L4 counted, clouds and the rest of the world
\* share out what comes and goes, and the two views of the web (HTTP by class,
\* WEB by category) share out the bytes of HTTP.  Only Skype, found at the
\* end, is counted beside them, and not in the shares of the clouds.
BytesCounted ==
    \A side \in {"out", "in", "loc"} :
        LET all == <<side, "all">>
            skype == Bytes(rates, <<"L7", all, "SKYPE">>)
            shared(t) == Total(t, <<side, "cloud">>) + Total(t, <<side, "rest">>)
        IN  /\ Total("L7", all) = Bytes(rates, <<"L4", all, "TCP">>) + skype
            /\ side # "loc" => /\ shared("L7") + skype = Total("L7", all)
                               /\ shared("HTTP") = Total("HTTP", all)
            /\ Total("HTTP", all) = Bytes(rates, <<"L7", all, "HTTP">>)
            /\ Total("WEB", all) = Total("HTTP", all)

\* The measures of a connection that is over are counted as often by where
\* its directions go as by who sent them.
TwiceMeasured ==
    counted # {} => \A m \in Lengths \cup Rtts \cup Anomalies :
        LET views == {"out", "in", "loc"}
            seen(rows) == {k[3] : k \in {s \in counted : s[1] = m /\ s[2] \in rows}}
        IN  seen(views) = seen(Dirs)

\* A guess from sizes and entropy stands only while nothing else is known,
\* and a connection has one application protocol, but for the streams and
\* the chats that run inside another.
Sound ==
    /\ ClassTypeOK /\ BytesCounted /\ TwiceMeasured
    /\ "MSE" \in pair.type => pair.type \subseteq Weak \cup {"RTMP"}
    /\ LET protos == pair.type \cap Protocols
       IN  \/ Cardinality(protos) <= 1
           \/ protos \in {{"HTTP", "RTSP"}, {"HTTP", "RTSP", "RTP"}, {"RTSP", "RTP"},
                          {"HTTP", "MSN"}}

\* The labels and their bytes, and where the options put the hosts.
FlowSound == Sound /\ PlacedAsAsked(conf.args, conf.frame, conf.place)

Said(d, cmds, i) == sent[i].dir = d /\ sent[i].cmd \in cmds
Once(P(_)) == \E i \in DOMAIN sent : P(sent[i])
Exchange(d, opening, answer) ==
    \E i, j \in DOMAIN sent : i < j /\ Said(d, opening, i) /\ Said(Other(d), answer, j)
SizesSeen(m, n) ==
    \E i, j \in DOMAIN sent : /\ i < j /\ sent[i].psh /\ sent[j].psh
                              /\ sent[i].len = m /\ sent[j].len = n

\* The first segment of its side: the stream was then as long as it, as it may
\* look again when a segment comes back after another.
TakenForFirst(s) ==
    \/ s.off = 0
    \/ /\ \E i, j \in DOMAIN sent : i < j /\ sent[i] = s /\ sent[j] = s
       /\ \E t \in ToSet(sent) : t.dir = s.dir /\ t # s /\ t.off + t.len = s.len

EvidenceOf(p) ==
    CASE p = "HTTP" -> Exchange("c2s", WebRequests, {"HTTP"})
      [] p = "ICY" -> Exchange("c2s", WebRequests, {"ICY"})
      [] p = "RTSP" -> \/ Exchange("c2s", {"DESCRIBE"}, {"RTSP"})
                       \/ "HTTP" \in pair.type /\ Once(LAMBDA s : s.dir = "s2c" /\ s.rtsp)
      [] p = "RTP" -> "RTSP" \in pair.type /\ Once(LAMBDA s : s.dir = "s2c" /\ s.cmd = "RTP")
      [] p = "MSN" -> Once(LAMBDA s : s.dir = "s2c" /\ s.cmd \in MsnCommands)
      [] p = "YMSG" -> Once(LAMBDA s : s.cmd = "YMSG")
      [] p = "XMPP" -> Once(LAMBDA s : s.cmd = "XMPP_SMELL")
      [] p = "SMTP" -> Exchange("s2c", {"SMTP_220"}, {"HELO"})
      [] p = "POP3" -> Exchange("s2c", {"POP_OK"}, {"USER"})
      [] p = "IMAP" -> /\ Exchange("s2c", {"IMAP_OK"}, {"TAG"})
                       /\ Exchange("c2s", {"TAG"}, {"TAG", "STAR"})
      [] p = "SSL" -> Exchange("c2s", {"SSL_CLIENT"}, {"SSL_SERVER"})
      [] p = "SSH" -> Exchange("s2c", {"SSH"}, {"SSH"})
      [] p = "P2P" -> Once(LAMBDA s : s.p2p # NoP2p)
      [] p = "OBF" -> SizesSeen(11, 55) \/ SizesSeen(22, 18) \/ SizesSeen(6, 46)
      [] p = "RTMP" -> \A d \in Dirs : Once(LAMBDA s : s.dir = d /\ s.rtmp /\ TakenForFirst(s))
      [] p = "MSE" -> \A d \in Dirs : Once(LAMBDA s : s.dir = d /\ s.psh)
      [] p = "SKYPE" -> ~open /\ conf.bayes

\* What a connection keeps of YouTube is what its own request said: all of it
\* for a video, the name for a page, and nothing of a first request with POST.
\* The rest of a page asked for with a later request is whatever another
\* connection left.
OwnVideo ==
    LET asked(class) == {s \in ToSet(sent) : s.cmd \in WebRequests /\ Class(s) = class}
        nothing(s) == s.cmd = "POST" /\ pair.own = Blank
    IN  /\ pair.web \in {"YOUTUBE_204", "YOUTUBE_VIDEO"} =>
              \E s \in asked(pair.web) : pair.own = Video(Blank, s.par) \/ nothing(s)
        /\ pair.web = "YOUTUBE_VIDEO204" =>
              /\ asked("YOUTUBE_204") # {}
              /\ \E s \in asked("YOUTUBE_VIDEO") : pair.own = Video(Blank, s.par)
        /\ pair.web \in YouTubeSite =>
              \E s \in asked(pair.web) : pair.own.id = Or(s.par.id, "--") \/ nothing(s)

\* Whatever order the segments come in, repeated, late or missing, what a
\* connection is taken for was opened by one side and answered by the other,
\* or seen in the sizes that stand for it.
Evidence == RulesMet /\ OwnVideo /\ \A p \in pair.type : EvidenceOf(p)

Rank(l) == IF l = "UNKNOWN" THEN 0 ELSE CHOOSE i \in DOMAIN Priority : Priority[i] = l

\* What a connection was called, and its bytes were counted as, only becomes
\* more specific: the label never falls, except that RTMP is given up when
\* the sizes of the messages do not fit; the class of a web connection and
\* the family of a peer-to-peer one stay.
Settled ==
    /\ Rank(Label(pair')) >= Rank(Label(pair)) \/ Label(pair) = "RTMP"
    /\ pair.web \in WebClasses \ (WebRequests \cup {"YOUTUBE_204"}) => pair'.web = pair.web
    /\ pair.p2p # NoP2p => Family(pair'.p2p) = Family(pair.p2p)
Settles == [][Settled]_classVars

Present == {"MSN_PRESENCE", "YMSG_PRESENCE", "YMSG_PRESENCE_CHAT", "XMPP_PRESENCE",
            "XMPP_CHAT"}
Chatting == {"MSN_CHAT", "YMSG_CHAT", "YMSG_PRESENCE_CHAT", "XMPP_CHAT"}
One(b) == IF b THEN 1 ELSE 0

\* The counts of the sessions now open: a connection is in them as often as
\* its type says, and whatever it did it has left them when it is closed.
\* Only the chats of an MSN login drift, when the connection carried messages.
OnlineCounts ==
    LET c == pair.chat
        drift == /\ c.ft \in {"MSN_LOGIN", "MSN_PRESENCE"}
                 /\ \E d \in Dirs : "MSG" \in c.seen[d]
    IN  /\ c.presences = One(open /\ c.ft \in Present)
        /\ c.chats = One(open /\ c.ft \in Chatting) \/ drift
==============================
