----------------------------- MODULE TcpOptions -----------------------------
(***************************************************************************)
(* The options of a TCP header: ParseOptions walks their bytes as far as   *)
(* the header and the captured part of the packet reach.  What it should   *)
(* find is read off the list of options that was sent.                     *)
(***************************************************************************)
EXTENDS Integers, FiniteSets, SequencesExt

Absent == -1
EOL == 0
NOP == 1
MAXSEG == 2
WS == 3
SACK_PERM == 4
SACK == 5
TS == 8
Skipped == {6, 7, 11, 12, 13}   \* echoes and T/TCP: parsed, never used
SackBlock == 8                  \* bytes of a block

\* A short and an s_char have a sign.
Signed(n, size) == IF n < size \div 2 THEN n ELSE n - size

NoOptions == [mss |-> Absent, ws |-> Absent, ts |-> FALSE, sack_req |-> FALSE,
              sack_count |-> Absent, unknown |-> 0]

\* The blocks of a SACK option at at that are captured as a whole.
Blocks(at, len, last) ==
    Cardinality({k \in 0..31 : at + 2 + k * SackBlock < at + len /\ at + 1 + (k + 1) * SackBlock <= last})

Found(o, b, at, last) ==
    CASE b[at] = MAXSEG -> [o EXCEPT !.mss = Signed(256 * b[at + 2] + b[at + 3], 65536)]
      [] b[at] = WS -> [o EXCEPT !.ws = Signed(b[at + 2], 256)]
      [] b[at] = TS -> [o EXCEPT !.ts = TRUE]
      [] b[at] = SACK_PERM -> [o EXCEPT !.sack_req = TRUE]
      [] b[at] = SACK -> [o EXCEPT !.sack_count = Blocks(at, b[at + 1], last)]
      [] b[at] \in Skipped -> o
      [] OTHER -> [o EXCEPT !.unknown = @ + 1]

(***************************************************************************)
(* One round of the loop: b are the bytes from the first option on, hdr of *)
(* them the header's, all of them captured.  An option whose length is 0   *)
(* or that is cut off ends the walk; EOL does not.                         *)
(***************************************************************************)
Round(w, b, hdr) ==
    LET last == Len(b)
        stop == [w EXCEPT !.at = hdr + 1]
    IN  CASE w.at > hdr -> w
          [] w.at <= hdr /\ w.at >= last -> [stop EXCEPT !.ctrunc = TRUE]
          [] w.at <= hdr /\ w.at < last /\ b[w.at] \in {EOL, NOP} -> [w EXCEPT !.at = @ + 1]
          [] w.at <= hdr /\ w.at < last /\ b[w.at] \notin {EOL, NOP} ->
                IF b[w.at + 1] = 0 THEN stop
                ELSE IF w.at + b[w.at + 1] - 1 > last THEN [stop EXCEPT !.ctrunc = TRUE]
                ELSE [w EXCEPT !.at = @ + b[w.at + 1], !.found = Found(@, b, w.at, last)]

ParseOptions(b, hdr) ==
    FoldLeft(LAMBDA w, k : Round(w, b, hdr), [at |-> 1, found |-> NoOptions, ctrunc |-> FALSE],
             [k \in 1..hdr |-> k])

(***************************************************************************)
(* What was sent: a list of options, each the sequence of its bytes, of    *)
(* which n bytes were captured.  An option counts when it is whole and no  *)
(* option before it has the length 0; the last of its kind is the one      *)
(* taken.                                                                  *)
(***************************************************************************)
Header(list) == FlattenSeq(list)
Upto(list, i) == Len(Header(SubSeq(list, 1, i)))
Endless(option) == Len(option) > 1 /\ option[2] = 0
Seen(list, n) ==
    {i \in 1..Len(list) : Upto(list, i) <= n /\ \A j \in 1..i : ~Endless(list[j])}
Sent(list, n, kind) ==
    LET S == {i \in Seen(list, n) : list[i][1] = kind}
    IN  IF S = {} THEN <<>> ELSE list[CHOOSE i \in S : \A j \in S : j <= i]
Scale(list, n) == IF Sent(list, n, WS) = <<>> THEN Absent ELSE Sent(list, n, WS)[3]

\* ParseOptions finds the options that were captured, the MSS of a host that has
\* one below 32768, and calls the packet truncated when it is, or when its last
\* byte is an option of its own.
OptionsFound(list, n) ==
    LET w == ParseOptions(SubSeq(Header(list), 1, n), Len(Header(list)))
        mss == Sent(list, n, MAXSEG)
        sack == Sent(list, n, SACK)
    IN  /\ w.found.ws = Scale(list, n)
        /\ w.found.mss = IF mss = <<>> THEN Absent
                         ELSE IF mss[3] < 128 THEN 256 * mss[3] + mss[4]
                         ELSE 256 * mss[3] + mss[4] - 65536
        /\ w.found.ts <=> Sent(list, n, TS) # <<>>
        /\ w.found.sack_req <=> Sent(list, n, SACK_PERM) # <<>>
        /\ w.found.sack_count = IF sack = <<>> THEN Absent ELSE (Len(sack) - 2) \div SackBlock
        /\ (\A i \in 1..Len(list) : ~Endless(list[i])) =>
              (w.ctrunc <=> \/ n < Upto(list, Len(list))
                            \/ list # <<>> /\ Len(list[Len(list)]) = 1)
==============================
