---------------------------- MODULE ClientLimits ----------------------------
(***************************************************************************)
(* The per-client rate limit in front of bff and login                     *)
(* (common/src/rate_limit.rs, bff/src/server/rate_limit.rs): which client  *)
(* a request is counted for, told by the proxies it came through, and the  *)
(* buckets it is counted in.                                               *)
(***************************************************************************)
EXTENDS Naturals, Sequences, FiniteSets, SequencesExt

CONSTANTS Hosts, Proxies,
          Trusted,     \* WA_TRUSTED_PROXIES
          Network,     \* of an address: its /64 for IPv6, itself for IPv4
          Buckets,     \* the service's buckets: each for requests of its own
          Burst

ASSUME LimitsAssumption ==
    /\ Trusted \subseteq Proxies /\ Hosts \cap Proxies = {}
    /\ Burst \in Nat \ {0}

VARIABLES spent,   \* of each bucket and client: attempts not yet back
          sent     \* history: the same, by who sent the requests

limitVars == <<spent, sent>>

(* An entry of X-Forwarded-For: an address, bare, with a port, or as an    *)
(* IPv4-mapped one; or nothing that can be read.                           *)
Entry(ip, form) == [ip |-> ip, form |-> form]
parse_hop(hop) == hop.form # "unreadable"

is_trusted(ip) == ip \in Trusted

(* Mutant: a trusted peer is believed whatever it passes on.               *)
client_ip_leftmost(peer, forwarded_for) ==
    IF forwarded_for = <<>> \/ ~is_trusted(peer) THEN peer ELSE Head(forwarded_for).ip

(* From the right, as long as the hop reached is trusted and what it wrote *)
(* can be read.                                                            *)
client_ip(peer, forwarded_for) ==
    LET step(hop, walk) ==
          IF walk.stop \/ ~is_trusted(walk.ip) THEN walk
          ELSE IF parse_hop(hop) THEN [ip |-> hop.ip, stop |-> FALSE]
          ELSE [walk EXCEPT !.stop = TRUE]
    IN  FoldRight(step, forwarded_for, [ip |-> peer, stop |-> FALSE]).ip

per_network(ip) == Network[ip]

NoneSpent == [b \in Buckets, n \in {Network[a] : a \in Hosts \cup Proxies} |-> 0]
LimitsInit == spent = NoneSpent /\ sent = NoneSpent

(* Each proxy appends the address it was called from to what it received,  *)
(* in a form of its own; a host begins with whatever it likes.             *)
Reported(forged, host, path, form) ==
    forged \o [i \in 1..Len(path) |-> Entry(IF i = 1 THEN host ELSE path[i - 1], form)]
PeerOf(host, path) == IF path = <<>> THEN host ELSE Last(path)

(* Who sent it, as far as anybody bff trusts can know.                     *)
Sender(host, path, form) ==
    LET hops == <<host>> \o path
        known == {i \in DOMAIN hops :
                    /\ \A j \in DOMAIN hops : j > i => is_trusted(hops[j])
                    /\ form = "unreadable" => i = Len(hops)}
    IN  hops[CHOOSE i \in known : \A j \in known : i <= j]

(* A request is let through and charged, or is a 429 and is not.           *)
Limit(bucket, host, path, form, forged) ==
    LET key == <<bucket, per_network(client_ip(PeerOf(host, path), Reported(forged, host, path, form)))>>
        who == <<bucket, per_network(Sender(host, path, form))>>
    IN  /\ spent[key] < Burst
        /\ spent' = [spent EXCEPT ![key] = @ + 1]
        /\ sent' = [sent EXCEPT ![who] = @ + 1]

(* One attempt is back; a bucket that is full again is forgotten.          *)
Replenish ==
    \E key \in DOMAIN spent :
       /\ spent[key] > 0
       /\ spent' = [spent EXCEPT ![key] = @ - 1]
       /\ sent' = [sent EXCEPT ![key] = IF @ > 0 THEN @ - 1 ELSE 0]

-----------------------------------------------------------------------------
(* Every client pays for its own requests and for no one else's, whatever  *)
(* it writes into X-Forwarded-For and whichever proxies it comes through   *)
(* (rate_limit.rs:85-90).                                                  *)
KeyedOnWhoSent == spent = sent
=============================================================================
