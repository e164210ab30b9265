------------------------------ MODULE Traffic ------------------------------
(***************************************************************************)
(* Where traffic is counted.  A packet and a flow are added to counters of *)
(* traffic that goes out, comes in or stays inside, and what goes out or   *)
(* comes in again to those of its cloud or of the rest of the world.  The  *)
(* choice is written anew for every family of counters: L4 and L7 rates,   *)
(* L7 histograms, Skype, and the histograms of a TCP connection.           *)
(***************************************************************************)
EXTENDS Naturals, FiniteSets

Dirs == {"c2s", "s2c"}
Other(d) == IF d = "c2s" THEN "s2c" ELSE "c2s"

(***************************************************************************)
(* A place says of the two hosts of a flow, each called by the way of the  *)
(* packets it sends, which are internal and which belong to a cloud.       *)
(***************************************************************************)
Place(internal, cloud) == [internal |-> internal, cloud |-> cloud]

\* in_out_loc.  Without LOG_UNKNOWN a flow of two external hosts is nowhere.
Side(p, d) ==
    CASE d \in p.internal /\ Other(d) \notin p.internal -> "out"
      [] d \notin p.internal /\ Other(d) \in p.internal -> "in"
      [] p.internal = Dirs -> "loc"
      [] p.internal = {} -> "ext"

\* The rows of a table of rates or histograms that are added to.
Rows(side, cloud) ==
    CASE side \in {"out", "in"} -> {<<side, "all">>, <<side, IF cloud THEN "cloud" ELSE "rest">>}
      [] side = "loc" -> {<<side, "all">>}
      [] side = "ext" -> {}

\* The host that is outside: the destination of what goes out, the source of
\* what comes in.
Remote(p, d) == IF Side(p, d) = "out" THEN Other(d) ELSE d
RemoteRows(p, d) == Rows(Side(p, d), Remote(p, d) \in p.cloud)

\* print_skype_conn_stats_TCP does not tell clouds.
Whole(rows) == {r \in rows : r[2] = "all"}

(***************************************************************************)
(* Rates are bytes by <<table, row, label>>.                               *)
(***************************************************************************)
Bytes(rates, k) == IF k \in DOMAIN rates THEN rates[k] ELSE 0
Add(rates, keys, n) ==
    [k \in DOMAIN rates \cup keys |-> Bytes(rates, k) + IF k \in keys THEN n ELSE 0]

\* ip_histo_stat, and tcp_header_stat or udp_header_stat.
HeaderKeys(p, d, proto) == {"L4"} \X RemoteRows(p, d) \X {"IP", proto}

(***************************************************************************)
(* The histograms of a TCP connection (make_conn_stats).  A sample is      *)
(* <<histogram, row, value>>, the value a direction when it is a measure   *)
(* of that direction.  e says what the connection was like: the directions *)
(* that asked for an option, their MSS, those with a sample of the round   *)
(* trip time, with a finite throughput and with a megabyte, and whether it *)
(* was complete or a stream.                                               *)
(***************************************************************************)
\* 1 both agree, 2 a set, 3 b set, 4 not set.
Agreement(asked) == CASE asked = Dirs -> 1 [] asked = {"c2s"} -> 2
                      [] asked = {"s2c"} -> 3 [] asked = {} -> 4

\* 536 when a side did not say.
MssUsed(mss) == IF \E d \in Dirs : mss[d] = 0 THEN 536
                ELSE IF mss["c2s"] < mss["s2c"] THEN mss["c2s"] ELSE mss["s2c"]

Options(e) ==
    {<<"opts_SACK", "all", Agreement(e.sack)>>, <<"opts_WS", "all", Agreement(e.ws)>>,
     <<"opts_TS", "all", Agreement(e.ts)>>, <<"mss_used", "all", MssUsed(e.mss)>>}

Lengths == {"cl_b_s", "cl_b_l", "cl_p"}
Rtts == {"rtt_avg", "rtt_min", "rtt_max", "rtt_stdev", "rtt_cnt"}
Anomalies == {"rtx_RTO", "rtx_FR", "reordering", "net_dup", "unknown", "flow_ctrl",
              "unnrtx_RTO", "unnrtx_FR"}

\* Each measure is counted by where the direction goes and by who sent it.
TwoWays(p, names) ==
    {<<m, Side(p, d), d>> : m \in names, d \in Dirs} \cup {<<m, d, d>> : m \in names, d \in Dirs}

CloudOr(p) == IF p.cloud # {} THEN "cloud" ELSE "rest"

\* A round trip is counted when both halves of it were measured.
RttSamples(p, e) ==
    IF e.rtt # Dirs THEN {}
    ELSE TwoWays(p, Rtts) \cup IF Side(p, "c2s") = "loc" THEN {}
                               ELSE {<<"rtt_avg", CloudOr(p), d>> : d \in Dirs}

Throughputs(p, e) ==
    {<<"thru", d, d>> : d \in e.finite}
    \cup {<<"thru_lf", r, d>> : r \in {"all", CloudOr(p)}, d \in e.finite \cap e.large}

\* The server of a connection that comes in sends a stream out.
StreamSamples(p) == {<<"mm", Side(p, "s2c"), "s2c">>}

ConnSamples(p, e) ==
    IF Side(p, "c2s") = "ext" THEN {}
    ELSE {<<"interrupted", "all", 0>>}
         \cup (IF e.complete THEN Options(e) \cup TwoWays(p, Lengths \cup Anomalies)
                                  \cup RttSamples(p, e) \cup Throughputs(p, e) ELSE {})
         \cup (IF e.stream THEN StreamSamples(p) ELSE {})
==============================
