------------------------------ MODULE ClientIP ------------------------------
(***************************************************************************)
(* The client address of the audit log.  A request goes from its client    *)
(* through trusted proxies to the handler; every proxy appends the address *)
(* it got the request from to X-Forwarded-For, after whatever the client   *)
(* has written there itself.                                               *)
(*                                                                         *)
(* Addresses keep their structure at a smaller width: an IPv4 address has  *)
(* V4 bits, an IPv6 address V6, and an IPv6 address that starts with       *)
(* Marker stands for the IPv4 address in its last V4 bits, as ::ffff:0:0   *)
(* does.  netip is external.                                               *)
(***************************************************************************)
EXTENDS Integers, SequencesExt

CONSTANTS V4, V6,      \* widths in bits
          Marker,      \* the V6 - V4 leading bits of an IPv4-mapped address
          Proxies,     \* IPv4 addresses of the proxies
          Garbage,     \* a hop that is no address
          Empty,       \* an empty hop
          MaxHops,     \* bound on the proxies on the way
          MaxClaims    \* bound on the hops a client writes

ASSUME ClientIPAssumption == /\ V4 \in Nat \ {0} /\ V6 \in Nat /\ V6 > V4
                             /\ Marker \in 1..(2^(V6 - V4) - 1)
                             /\ Proxies \subseteq 0..(2^V4 - 1)
                             /\ MaxHops \in Nat /\ MaxClaims \in Nat

VARIABLES entries,   \* server.trustedproxies
          client,    \* the true client
          peer,      \* the connection's remote address, as the socket reports it
          lines,     \* the X-Forwarded-For header lines
          real,      \* X-Real-IP
          hops       \* proxies passed

clientVars == <<entries, client, peer, lines, real, hops>>

-----------------------------------------------------------------------------
(* netip *)

Addr(v, n) == [v |-> v, n |-> n]
Width(v) == IF v = 4 THEN V4 ELSE V6

Is4In6(a) == a.v = 6 /\ a.n \div 2^V4 = Marker
Unmap(a) == IF Is4In6(a) THEN Addr(4, a.n % 2^V4) ELSE a

\* Both ways to report the IPv4 address n.
Forms(n) == {Addr(4, n), Addr(6, Marker * 2^V4 + n)}

Masked(p) == [p EXCEPT !.n = @ - (@ % 2^(Width(p.v) - p.bits))]
Covers(p, a) == p.v = a.v /\ p.n \div 2^(Width(p.v) - p.bits) = a.n \div 2^(Width(a.v) - p.bits)

Prefix == [v : {4}, n : 0..(2^V4 - 1), bits : 0..V4] \cup [v : {6}, n : 0..(2^V6 - 1), bits : 0..V6]

-----------------------------------------------------------------------------

\* Mutant: the prefix as it was written.
parseTrustedProxiesMapped(e) == Masked(e)

\* A CIDR, or an address with all of its bits.  A mapped prefix is unmapped.
parseTrustedProxies(e) ==
  LET p == Masked(e) IN
  IF Is4In6(p) THEN [v |-> 4, n |-> p.n % 2^V4, bits |-> p.bits - (V6 - V4)] ELSE p

trusted(a) == \E e \in entries : Covers(parseTrustedProxies(e), a)

\* Every line, split at its commas, without empty hops.
forwardedFor == SelectSeq(FlattenSeq(lines), LAMBDA x : x # Empty)

\* The walk from the right ends at the first hop that is no trusted proxy: it is
\* the client, unless it is no address, when the hop before it is the answer.
clientIP(xff, rip) ==
  LET addr == Unmap(peer)
      ends == {i \in DOMAIN xff : IF xff[i] = Garbage THEN TRUE ELSE ~trusted(Unmap(xff[i]))}
      last == Max(ends) IN
  CASE ~trusted(addr) -> addr
    [] trusted(addr) /\ xff = <<>> -> IF rip = Garbage THEN addr ELSE Unmap(rip)
    [] trusted(addr) /\ xff # <<>> /\ ends = {} -> Unmap(xff[1])
    [] OTHER -> CASE xff[last] # Garbage -> Unmap(xff[last])
                  [] xff[last] = Garbage /\ last < Len(xff) -> Unmap(xff[last + 1])
                  [] OTHER -> addr

-----------------------------------------------------------------------------

\* The entry, as its author means it: the IPv4 addresses it covers in either form.
Meant(e) == {n \in 0..(2^V4 - 1) : \E a \in Forms(n) : Covers(Masked(e), a) /\ (e.v = 6 => Is4In6(Masked(e)))}

Claims == SeqOf(Forms(0) \cup Forms(1) \cup {Garbage, Empty}, MaxClaims)

\* One entry for all proxies, or one for each.
Entries == {{e} : e \in {f \in Prefix : Proxies \subseteq Meant(f)}} \cup
           {{[v |-> a[q].v, n |-> a[q].n, bits |-> Width(a[q].v)] : q \in Proxies} :
              a \in {h \in [Proxies -> UNION {Forms(q) : q \in Proxies}] : \A q \in Proxies : h[q] \in Forms(q)}}

Inside == client \in UNION {Meant(e) : e \in entries}

ClientInit == /\ entries \in Entries
              /\ client \in 0..(2^V4 - 1)
              /\ peer \in Forms(client)
              /\ lines \in {<<>>} \cup {<<c>> : c \in Claims}
              /\ real \in {Garbage, Addr(4, 0)}
              /\ hops = 0

\* A proxy passes the request on, on a line of its own or at the end of the last.
Forward(q) ==
  /\ hops < MaxHops
  /\ hops' = hops + 1
  /\ \E a \in Forms(Unmap(peer).n) :
       \/ lines' = Append(lines, <<a>>)
       \/ lines # <<>> /\ lines' = [lines EXCEPT ![Len(lines)] = Append(@, a)]
  /\ peer' \in Forms(q)
  /\ UNCHANGED <<entries, client, real>>

\* A proxy that sets X-Real-IP and no X-Forwarded-For, for a client without one.
ForwardReal(q) ==
  /\ hops = 0 /\ forwardedFor = <<>>
  /\ hops' = MaxHops
  /\ real' = peer
  /\ peer' \in Forms(q)
  /\ UNCHANGED <<entries, client, lines>>

ClientNext == \E q \in Proxies : Forward(q) \/ ForwardReal(q)

ClientSpec == ClientInit /\ [][ClientNext]_clientVars

-----------------------------------------------------------------------------

\* What the client itself has written into X-Forwarded-For.
Written == SubSeq(forwardedFor, 1, Len(forwardedFor) - hops)

\* The client claims no address where a walk past all proxies gets to it.
ClaimsNothing == IF Written = <<>> THEN hops > 0 \/ real = Garbage
                                   ELSE Last(Written) = Garbage

\* Through trusted proxies the handler finds the client, whatever the client has
\* written into the headers, however the sockets report addresses and the entry
\* of server.trustedproxies is spelled ("so the first untrusted hop is the
\* client.  Entries left of it are the client's own claims").  A client inside
\* the trusted nets, whose claims look like hops, is found if it claims nothing:
\* at the end of the list ("the request started inside the trusted net") or
\* before garbage ("the last address a trusted proxy vouched for").
FindsTheClient == (Inside => ClaimsNothing) => clientIP(forwardedFor, real) = Addr(4, client)
=============================================================================
