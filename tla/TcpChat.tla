------------------------------- MODULE TcpChat -------------------------------
(***************************************************************************)
(* The chat analysers of a TCP connection (msn.c, ymsg.c, jabber.c).  Each *)
(* message of a chat connection is noted for its direction, the connection *)
(* is classified again, and when it turns out to be a chat or a presence   *)
(* session a person arrives in a count of the sessions now open; the       *)
(* person leaves when the connection is closed.  A connection speaks one   *)
(* of the three protocols, so one record holds its chat state.             *)
(***************************************************************************)
EXTENDS Integers, FiniteSets, Traffic


\* The flow types MFT, YFT and JFT.  Both directions always have the same.
MsnTypes == {"MSN_LOGIN", "MSN_TUNNEL", "MSN_CHAT", "MSN_PRESENCE"}
YmsgTypes == {"YMSG_YMSG", "YMSG_CHAT", "YMSG_PRESENCE", "YMSG_PRESENCE_CHAT", "YMSG_P2P"}
JabberTypes == {"XMPP_PRESENCE", "XMPP_CHAT"}
ChatTypes == {"UNKNOWN"} \cup MsnTypes \cup YmsgTypes \cup JabberTypes

\* What is counted of a direction: each command at most once, but for its
\* effects the number of messages does not matter either.
Noted == {"VER", "USR", "ANS", "IRO", "MSG", "MSG_Y", "AUTH_RESP", "MESSAGE",
          "P2Pcheck", "PRESENCE"}

\* chats and presences: what this connection has added to the two counts.
NoChat == [ft |-> "UNKNOWN", seen |-> [d \in Dirs |-> {}], arrived |-> FALSE,
           chats |-> 0, presences |-> 0]

Note(c, d, cmds) == [c EXCEPT !.seen[d] = @ \cup cmds]

\* AVE_arrival and AVE_departure of the window of chats and of presences.
Chats(c, n) == [c EXCEPT !.chats = @ + n]
Presences(c, n) == [c EXCEPT !.presences = @ + n]

(***************************************************************************)
(* MSN.                                                                    *)
(***************************************************************************)
\* FindConTypeMsn: a message to or from a contact of Yahoo is both.
FindMsn(c, d, cmd) ==
    Note(c, d, CASE cmd \in {"VER", "USR", "ANS", "IRO", "MSG"} -> {cmd}
                 [] cmd \in {"UUM", "UBM"} -> {"MSG", "MSG_Y"}
                 [] OTHER -> {})

\* A chat of a connection that is not a login.
MsnChat(c, d) ==
    IF c.ft \in {"UNKNOWN", "MSN_TUNNEL"} /\ "MSG" \in c.seen[d]
    THEN Chats([c EXCEPT !.ft = "MSN_CHAT"], 1) ELSE c

\* The second step of classify_msn_flow has the guard of the first.
MsnLogin(c, d) ==
    IF "VER" \notin c.seen[d] THEN c
    ELSE IF "USR" \in c.seen[d] THEN Presences([c EXCEPT !.ft = "MSN_PRESENCE"], 1)
    ELSE [c EXCEPT !.ft = "MSN_LOGIN"]

\* A chat inside a presence session, with a contact of Yahoo.
MsnYahoo(c, d) ==
    IF c.ft = "MSN_PRESENCE" /\ ~c.arrived /\ "MSG_Y" \in c.seen[d]
    THEN Chats([c EXCEPT !.arrived = TRUE], 1) ELSE c

\* classify_msn_flow
ClassifyMsn(c, d) ==
    MsnYahoo(IF c.ft \in {"UNKNOWN", "MSN_LOGIN", "MSN_TUNNEL"}
             THEN MsnLogin(MsnChat(c, d), d) ELSE c, d)

\* print_msn_conn_stats
LeaveMsn(c) ==
    CASE c.ft = "MSN_CHAT" -> Chats(c, -1)
      [] c.ft = "MSN_PRESENCE" ->
            Presences(IF "MSG_Y" \in c.seen["c2s"] THEN Chats(c, -1) ELSE c, -1)
      [] OTHER -> c

(***************************************************************************)
(* Yahoo! Messenger.                                                       *)
(***************************************************************************)
\* FindConTypeYmsg, of a message that starts with YMSG.
FindYmsg(c, d, cmd) ==
    IF cmd \notin {"YMSG", "AUTH_RESP", "MESSAGE", "P2Pcheck"} THEN c
    ELSE Note([c EXCEPT !.ft = IF @ = "UNKNOWN" THEN "YMSG_YMSG" ELSE @],
              d, {cmd} \ {"YMSG"})

YmsgPeers(c) ==
    IF c.ft = "YMSG_PRESENCE" /\ "P2Pcheck" \in c.seen["s2c"]
    THEN Presences([c EXCEPT !.ft = "YMSG_P2P"], -1) ELSE c

\* Mutant: a chat inside a presence session forgets the presence.
YmsgMessage_Bug(c, d) ==
    IF "MESSAGE" \notin c.seen[d] THEN c
    ELSE CASE c.ft \in {"UNKNOWN", "YMSG_YMSG", "YMSG_PRESENCE"}
                -> Chats([c EXCEPT !.ft = "YMSG_CHAT"], 1)
           [] OTHER -> c

YmsgMessage(c, d) ==
    IF "MESSAGE" \notin c.seen[d] THEN c
    ELSE CASE c.ft \in {"UNKNOWN", "YMSG_YMSG"} -> Chats([c EXCEPT !.ft = "YMSG_CHAT"], 1)
           [] c.ft = "YMSG_PRESENCE" -> Chats([c EXCEPT !.ft = "YMSG_PRESENCE_CHAT"], 1)
           [] OTHER -> c

YmsgLogin(c, d) ==
    IF c.ft \in {"UNKNOWN", "YMSG_YMSG"} /\ "AUTH_RESP" \in c.seen[d]
    THEN Presences([c EXCEPT !.ft = "YMSG_PRESENCE"], 1) ELSE c

\* classify_ymsg_flow
ClassifyYmsg(c, d) == YmsgLogin(YmsgMessage(YmsgPeers(c), d), d)

\* print_ymsg_conn_stats
LeaveYmsg(c) ==
    CASE c.ft = "YMSG_CHAT" -> Chats(c, -1)
      [] c.ft = "YMSG_PRESENCE" -> Presences(c, -1)
      [] c.ft = "YMSG_PRESENCE_CHAT" -> Presences(Chats(c, -1), -1)
      [] OTHER -> c

(***************************************************************************)
(* Jabber.                                                                 *)
(***************************************************************************)
\* FindConTypeJabber: strncmp over the length of the shorter text, so that a
\* payload that starts with a zero byte is a presence.
FindJabber(c, d, cmd) ==
    CASE cmd \in {"PRESENCE", "NUL"} -> Note(c, d, {"PRESENCE"})
      [] cmd = "MESSAGE" /\ c.ft \in JabberTypes -> Note(c, d, {"MESSAGE"})
      [] OTHER -> c

JabberMessage(c, d) ==
    IF c.ft = "XMPP_PRESENCE" /\ "MESSAGE" \in c.seen[d]
    THEN Chats([c EXCEPT !.ft = "XMPP_CHAT"], 1) ELSE c

JabberPresence(c, d) ==
    IF c.ft = "UNKNOWN" /\ "PRESENCE" \in c.seen[d]
    THEN Presences([c EXCEPT !.ft = "XMPP_PRESENCE"], 1) ELSE c

\* classify_jabber_flow
ClassifyJabber(c, d) == JabberPresence(JabberMessage(c, d), d)

\* print_jabber_conn_stats
LeaveJabber(c) ==
    CASE c.ft = "XMPP_CHAT" -> Presences(Chats(c, -1), -1)
      [] c.ft = "XMPP_PRESENCE" -> Presences(c, -1)
      [] OTHER -> c

\* The first thing make_conn_stats does with any connection it closes.
Leave(c) == LeaveJabber(LeaveYmsg(LeaveMsn(c)))
==============================
