------------------------------ MODULE Networks ------------------------------
(***************************************************************************)
(* Which hosts are internal and which belong to a cloud: the options -N,   *)
(* -M, -C and -2 in the order they are given, the files they name, and     *)
(* what ip_header_stat makes of them for a packet.  An address is the set  *)
(* of its bits that are one, Width - 1 being the first of them in a dotted *)
(* address, so that masking is an intersection.                            *)
(***************************************************************************)
EXTENDS Traffic, Sequences

CONSTANTS
    Width,      \* 32: bits of an address
    MaxNets,    \* MAX_INTERNAL_HOSTS, MAX_CLOUD_HOSTS: networks of a file
    MaxMacs     \* MAX_INTERNAL_ETHERS

ASSUME WidthAssumption == {Width, MaxNets, MaxMacs} \subseteq Nat \ {0}

AddressBits == 0..(Width - 1)

(***************************************************************************)
(* A network of a file of -N or -C: an address and either the length n of  *)
(* its prefix or a mask, on one line or on two; ok if both are well formed.*)
(***************************************************************************)
Prefix(addr, n) == [short |-> TRUE, addr |-> addr, n |-> n, mask |-> {}, ok |-> TRUE]
Masked(addr, mask) == [short |-> FALSE, addr |-> addr, n |-> 0, mask |-> mask, ok |-> TRUE]
Garbled == [Masked({}, {}) EXCEPT !.ok = FALSE]

\* What the options and the packets can be.
Line == [short : BOOLEAN, addr : SUBSET AddressBits, n : Nat, mask : SUBSET AddressBits, ok : BOOLEAN]
Option == [opt : {"N", "C"}, file : Seq(Line)] \cup [opt : {"M", "2"}, file : Seq(STRING)]
Frames == [ip : [Dirs -> SUBSET AddressBits], mac : [Dirs -> STRING], coming_in : BOOLEAN,
           direction : 0..4]

Wrong(line) == ~line.ok \/ (line.short /\ line.n \notin 1..Width)

\* The address 0.0.0.0 is everything, whatever the length.
MaskOf(line) == IF ~line.short THEN line.mask
                ELSE IF line.addr = {} THEN {}
                ELSE {b \in AddressBits : b >= Width - line.n}

\* Mutant: the bits of a host stay in the network.
Network_Bug(line) == [mask |-> MaskOf(line), net |-> line.addr]
Network(line) == [mask |-> MaskOf(line), net |-> line.addr \cap MaskOf(line)]

\* LoadInternalNets and LoadCloudNets: a file replaces the one before it, or
\* the program gives up.
Refused(file) == Len(file) > MaxNets \/ \E i \in 1..Len(file) : Wrong(file[i])
Loaded(file) == [i \in 1..Len(file) |-> Network(file[i])]

\* LoadInternalEth.
RefusedMacs(file) == Len(file) > MaxMacs \/ \E i \in 1..Len(file) : file[i] = "garbled"

(***************************************************************************)
(* ParseArgs: what the options have set so far.                            *)
(***************************************************************************)
NoOptions == [nets |-> <<>>, macs |-> {}, clouds |-> <<>>, wired |-> FALSE,
              net_conf |-> FALSE, eth_conf |-> FALSE, warned |-> FALSE, exit |-> FALSE]

Warn(o) == [o EXCEPT !.warned = @ \/ (o.eth_conf /\ o.net_conf)]

ParseArgs(o, a) ==
    CASE o.exit -> o
      [] ~o.exit /\ a.opt = "N" ->
            IF Refused(a.file) THEN [o EXCEPT !.exit = TRUE]
            ELSE Warn([o EXCEPT !.nets = Loaded(a.file), !.net_conf = TRUE])
      [] ~o.exit /\ a.opt = "M" ->
            IF RefusedMacs(a.file) THEN [o EXCEPT !.exit = TRUE]
            ELSE Warn([o EXCEPT !.macs = {a.file[i] : i \in 1..Len(a.file)}, !.eth_conf = TRUE])
      [] ~o.exit /\ a.opt = "C" ->
            IF Refused(a.file) THEN [o EXCEPT !.exit = TRUE]
            ELSE [o EXCEPT !.clouds = Loaded(a.file)]
      [] ~o.exit /\ a.opt = "2" -> [o EXCEPT !.wired = TRUE]

\* CheckArguments: without -N and -M everything is internal.
Configured(args) ==
    LET given[n \in 0..Len(args)] == IF n = 0 THEN NoOptions ELSE ParseArgs(given[n - 1], args[n])
        o == given[Len(args)]
    IN  IF o.net_conf \/ o.eth_conf THEN o
        ELSE [o EXCEPT !.nets = <<[mask |-> {}, net |-> {}]>>]

(***************************************************************************)
(* A packet of the client: the addresses of the two hosts, their Ethernet  *)
(* addresses, the card it was captured on (-2) and the direction that a    *)
(* caller of the library gives it (0 for none).                            *)
(***************************************************************************)
\* internal_ip and cloud_ip.
Member(addr, nets) == \E i \in 1..Len(nets) : addr \cap nets[i].mask = nets[i].net

\* internal_eth, for the frames of a capture.
MacsInside(o, f) == {d \in Dirs : f.mac[d] \in o.macs}

Directed(f) == CASE f.direction = 1 -> Dirs [] f.direction = 2 -> {"c2s"}
                 [] f.direction = 3 -> {"s2c"} [] f.direction = 4 -> {}

\* ip_header_stat: the cards before the Ethernet addresses before the caller
\* before the networks.
Inside(o, f) ==
    IF o.wired THEN (IF f.coming_in THEN {"c2s"} ELSE {"s2c"})
    ELSE IF o.macs # {} THEN MacsInside(o, f)
    ELSE IF f.direction # 0 THEN Directed(f)
    ELSE {d \in Dirs : Member(f.ip[d], o.nets)}

PlaceOf(o, f) == Place(Inside(o, f), {d \in Dirs : Member(f.ip[d], o.clouds)})

(***************************************************************************)
(* The documentation of the options, as what they should achieve.          *)
(***************************************************************************)
Uses(args, opt) == {i \in DOMAIN args : args[i].opt = opt}
LastFile(args, opt) == LET given == Uses(args, opt)
                       IN  IF given = {} THEN <<>>
                           ELSE args[CHOOSE i \in given : \A j \in given : j <= i].file

\* An address is in a network when it begins like it.
BeginsLike(addr, line) ==
    \A b \in AddressBits :
        (IF line.short THEN line.addr # {} /\ b >= Width - line.n ELSE b \in line.mask)
            => (b \in addr <=> b \in line.addr)
Listed(addr, file) == \E i \in 1..Len(file) : BeginsLike(addr, file[i])

\* Without an option that says more, a host is internal when the last file of -N
\* lists it, in whichever format, with or without the bits of a host, and every
\* host is when there is neither -N nor -M; -N only loses to -M with a warning,
\* and to the cards of -2; a host is in a cloud when the last file of -C says so.
PlacedAsAsked(args, f, place) ==
    LET given(opt) == Uses(args, opt) # {}
        macs == LastFile(args, "M")
    IN  /\ place.cloud = {d \in Dirs : given("C") /\ Listed(f.ip[d], LastFile(args, "C"))}
        /\ (f.direction = 0 /\ macs = <<>> /\ ~given("2")) =>
               place.internal = {d \in Dirs : IF given("N") THEN Listed(f.ip[d], LastFile(args, "N"))
                                              ELSE ~given("M")}
        /\ (given("N") /\ macs # <<>>) => Configured(args).warned
==============================
