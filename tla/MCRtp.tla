------------------------------- MODULE MCRtp -------------------------------
(***************************************************************************)
(* A media flow for TLC.  A direction of a UDP flow holds either a struct  *)
(* rtp or a struct rtcp (union flow), so an instance is one stream of the  *)
(* one kind or of the other.                                               *)
(***************************************************************************)
EXTENDS RtpStream, RtcpStream

McInit == (Init /\ RtcpNone) \/ (NoStream /\ RtcpInit)
\* Bound: packets seen of a stream whose time stamps advance by more than
\* largest_ts follows; the slow one goes on until a slot can be forgotten.
FastPackets == 8
McNext ==
    \/ Next /\ (Followed \/ rtp'.pnum <= FastPackets) /\ UNCHANGED rtcpVars
    \/ RtcpNext /\ UNCHANGED vars
\* What rtp.c keeps of a stream of either kind is of one piece.
MediaSound == Sound /\ RtcpTypeOK

McSpec == McInit /\ [][McNext]_<<vars, rtcpVars>>
==============================
