------------------------------- MODULE NetAddrs -------------------------------
(***************************************************************************)
(* The server's own addresses, src/src/common/net_addrs_util.c: connections*)
(* to recorders are bound to them in turn.                                 *)
(***************************************************************************)
EXTENDS Integers

CONSTANTS
    MaxAddrs,       \* addresses of network interfaces that are not internal
    MaxConnects     \* bound: connections made

ASSUME AddrsAssumption == MaxAddrs \in Nat /\ MaxConnects \in Nat

VARIABLES
    addr_count, addr_index, \* stms_addrs_t
    uses                    \* history: connections bound to each address

addrVars == <<addr_count, addr_index, uses>>

Addrs == 0 .. MaxAddrs - 1

AddrsTypeOK ==
    /\ addr_count \in 0 .. MaxAddrs
    /\ addr_index \in Addrs \cup {0}
    /\ uses \in [Addrs -> Nat]

\* init_smts_addrs.  Zero if the interfaces cannot be listed.
init_smts_addrs ==
    /\ addr_count \in 0 .. MaxAddrs
    /\ addr_index = 0
    /\ uses = [a \in Addrs |-> 0]

\* A bug to tell apart: the first address is skipped after each round.
NextAddr_Skip == IF addr_index + 1 >= addr_count THEN (IF addr_count > 1 THEN 1 ELSE 0)
                 ELSE addr_index + 1

\* A bug to tell apart: the index goes one too far.
NextAddr_Past == IF addr_index >= addr_count THEN 0 ELSE addr_index + 1

NextAddr == (addr_index + 1) % addr_count

\* smts_get_one_addrs returns an address: tcp_client_connect binds to it.
smts_get_one_addrs ==
    /\ addr_count > 0
    /\ uses[addr_index] < MaxConnects
    /\ uses' = [uses EXCEPT ![addr_index] = @ + 1]
    /\ addr_index' = NextAddr
    /\ UNCHANGED addr_count

\* No address has two connections more than another: every address is used
\* (smts_get_one_addrs).
AddressesEven ==
    \A a, b \in 0 .. addr_count - 1 : uses[a] <= uses[b] + 1
===============================================================================
